---- MODULE Spec2Model ----
(***************************************************************************)
(* Cloud Hypervisor driver: the network allocator and the VM lifecycle     *)
(* controller (Driver in package cloudhypervisor).                         *)
(*                                                                         *)
(* Addresses are scaled down: a netip.Addr is a number in 0..MaxAddr, the  *)
(* zero Addr (IsValid() = false) is MaxAddr + 1, and the text of an        *)
(* address is a string.  The allocation map is keyed by text, as in the    *)
(* code (map[string]bool).                                                 *)
(***************************************************************************)
EXTENDS Integers, Sequences, FiniteSets, TLC

\* Largest address of the scaled-down address space.
MaxAddr == 7
\* Number of successive allocateIP calls followed in SpecPool.
MaxCalls == 5

VARIABLES
    subnet,        \* Driver.subnet      (netip.Prefix, as [lo, hi])
    gatewayIP,     \* Driver.gatewayIP
    ipPoolStart,   \* Driver.ipPoolStart
    ipPoolEnd,     \* Driver.ipPoolEnd
    allocatedIPs,  \* Driver.allocatedIPs (set of keys mapped to true)
    allocLog,      \* results of the successive allocateIP calls (SpecPool)
    allocBefore,   \* allocatedIPs as the last allocateIP call found it
    allocResult,   \* what the last allocateIP call returned
    released,      \* the text last passed to deallocateIP, and whether it was allocated
    processes,     \* Driver.processes   (registry: name -> VMProcess)
    workDirs,      \* host: work directories that exist
    taps,          \* host: VMs whose TAP interface exists
    virtiofsd,     \* host: VMs whose virtiofsd helpers run
    vmm,           \* host: the pids of the live VMM processes per VM name
    mu,            \* Driver.mu: 0 when free, else the goroutine holding it
    pc,            \* position of each goroutine
    call,          \* the CreateDomain call a goroutine is in
    proc,          \* the VMProcess a CreateDomain call is building
    ret,           \* the latest return: the call, its result, its process events
    torn,          \* per VM name: the last teardown completed on it
    networkConfig, \* Driver.networkConfig (the configuration as text)
    started,       \* what Driver.Start returned ("none" before it is called)
    derived,       \* the last address resolution: its call and what it returned
    launches,      \* the VMs launched so far: name, time, MAC, TAP name, driver state
    ipt,           \* the host firewall: tooling, chains, jump rules, rules, and its first state
    inst,          \* each Controller instance inside Init: position, locals, result
    built,         \* the last VMStartedBuild: its request, rules appended, what it returned
    down,          \* the last VMTerminatedTeardown: its request, deletions tried, what it returned
    query,         \* each read-only query in flight: position, what it read, what it returned
    ctx,           \* the driver's context and monitorCtx: cancelled, swept
    vfio,          \* the host's PCI devices as sysfs shows them, and the last VFIO call
    lease          \* the host's dnsmasq lease file and clock

cfgVars   == <<subnet, gatewayIP, ipPoolStart, ipPoolEnd>>
allocVars == <<allocLog, allocBefore, allocResult, released>>
hostVars  == <<workDirs, taps, virtiofsd, vmm>>
thrVars   == <<mu, pc, call, proc, ret, torn>>
auxVars   == <<networkConfig, started, derived, launches, ipt, inst, built>>
fwVars    == <<ipt, inst, built>>
lateVars  == <<down, query, ctx, vfio, lease>>
vars == <<subnet, gatewayIP, ipPoolStart, ipPoolEnd, allocatedIPs,
          allocLog, allocBefore, allocResult, released, processes,
          workDirs, taps, virtiofsd, vmm, mu, pc, call, proc, ret, torn,
          networkConfig, started, derived, launches, ipt, inst, built,
          down, query, ctx, vfio, lease>>

----------------------------------------------------------------------------
(* netip.Addr, netip.Prefix and their text *)

Addrs == 0..MaxAddr
InvalidAddr == MaxAddr + 1

IsValid(a) == a \in Addrs

\* netip.Addr.Next: the zero Addr after the last address of the space.
AddrNext(a) == IF a < MaxAddr THEN a + 1 ELSE InvalidAddr

\* netip.Addr.String
AddrString(a) == IF IsValid(a) THEN ToString(a) ELSE "invalid IP"

\* A string no address prints as and netip.ParseAddr rejects.
BadText == "not-an-ip"
\* The empty string: no static_ip in the task.
NoStatic == ""

\* A second text of the same address: netip.ParseAddr reads every spelling of
\* an IPv6 address (groups of zeros written out, upper-case digits), String
\* prints only the compressed lower-case one.
LongString(a) == "0:" \o ToString(a)

\* netip.ParseAddr: the address whose text s is, the zero Addr on an error.
ParseAddr(s) ==
    IF \E a \in Addrs : s \in {ToString(a), LongString(a)}
    THEN CHOOSE a \in Addrs : s \in {ToString(a), LongString(a)}
    ELSE InvalidAddr

\* netip.Prefix.Contains
Contains(p, a) == IsValid(a) /\ p.lo <= a /\ a <= p.hi

\* The prefixes of the scaled-down space: aligned blocks of four addresses.
Prefixes == { [lo |-> 4 * k, hi |-> 4 * k + 3] : k \in 0..((MaxAddr + 1) \div 4 - 1) }

\* The zero netip.Prefix (IsValid() = false): it contains no address.
InvalidPrefix == [lo |-> 1, hi |-> 0]

\* The text of a prefix length, and of a CIDR: an address, "/", the length.
BitsText == "/30"
CidrString(a) == AddrString(a) \o BitsText
BadCidr == "not-a-cidr"

\* netip.ParsePrefix(s).Masked(): the block the address of s lies in, the
\* zero Prefix on an error.
ParsePrefixMasked(s) ==
    IF \E a \in Addrs : CidrString(a) = s
    THEN LET a == CHOOSE b \in Addrs : CidrString(b) = s
         IN [lo |-> 4 * (a \div 4), hi |-> 4 * (a \div 4) + 3]
    ELSE InvalidPrefix

\* netip.Prefix.Addr: the zero Addr for the zero Prefix.
PrefixAddr(p) == IF p \in Prefixes THEN p.lo ELSE InvalidAddr

----------------------------------------------------------------------------
(* Driver.validateNetworkConfig: the checks on the parsed configuration *)

validateNetworkConfig(sn, gw, ps, pe) ==
    /\ sn \in Prefixes
    /\ IsValid(gw) /\ Contains(sn, gw)
    /\ IsValid(ps) /\ IsValid(pe)
    /\ Contains(sn, ps) /\ Contains(sn, pe)
    /\ ~(pe < ps)
    /\ gw # ps

\* No network block in the driver configuration (d.networkConfig == nil).
NoNetwork == [Bridge |-> "", SubnetCIDR |-> "", Gateway |-> "", IPPoolStart |-> "", IPPoolEnd |-> "",
              TAPPrefix |-> "", present |-> FALSE]

\* Driver.initializeNetworkConfig: the parsed fields [subnet, gatewayIP,
\* ipPoolStart, ipPoolEnd] of a driver built from the configuration nc.
initializeNetworkConfig(nc) ==
    IF ~nc.present
    THEN [subnet |-> InvalidPrefix, gatewayIP |-> InvalidAddr,
          ipPoolStart |-> InvalidAddr, ipPoolEnd |-> InvalidAddr]
    ELSE LET sn  == ParsePrefixMasked(nc.SubnetCIDR)
             ps0 == ParseAddr(nc.IPPoolStart)
             pe0 == ParseAddr(nc.IPPoolEnd)
             gw0 == ParseAddr(nc.Gateway)
             nxt == AddrNext(PrefixAddr(sn))
         IN IF sn \in Prefixes
            THEN [subnet |-> sn,
                  gatewayIP |-> IF ~IsValid(gw0) /\ IsValid(nxt) /\ Contains(sn, nxt)
                                THEN nxt ELSE gw0,
                  ipPoolStart |-> IF IsValid(ps0) /\ ~Contains(sn, ps0) THEN InvalidAddr ELSE ps0,
                  ipPoolEnd |-> IF IsValid(pe0) /\ ~Contains(sn, pe0) THEN InvalidAddr ELSE pe0]
            ELSE [subnet |-> sn, gatewayIP |-> gw0, ipPoolStart |-> ps0, ipPoolEnd |-> pe0]

\* What Driver.validateNetworkConfig returns.
ErrNoNetwork == "network configuration is not set"
ErrNoBridge == "network bridge is not configured"
ErrInvalidNetwork == "invalid network configuration"
validateNetworkConfigError(nc, sn, gw, ps, pe) ==
    IF ~nc.present THEN ErrNoNetwork
    ELSE IF nc.Bridge = "" THEN ErrNoBridge
    ELSE IF ~validateNetworkConfig(sn, gw, ps, pe) THEN ErrInvalidNetwork
    ELSE "nil"

----------------------------------------------------------------------------
(* Driver.allocateIP and Driver.deallocateIP *)

NoErr == "nil"
ErrNoAvailable == "no available IPs in pool"
ErrOutsideSubnet == "allocated IP is outside configured subnet"
ErrNotConfigured == "IP pool is not configured"

\* The for loop of allocateIP, from the address ip on.
RECURSIVE allocateScan(_, _, _, _, _, _)
allocateScan(ip, alloc, sn, gw, ps, pe) ==
    IF sn \in Prefixes /\ ~Contains(sn, ip)
    THEN [ip |-> "", err |-> ErrOutsideSubnet]
    ELSE IF IsValid(gw) /\ ip = gw
    THEN IF ip = pe \/ ~IsValid(AddrNext(ip))
         THEN [ip |-> "", err |-> ErrNoAvailable]
         ELSE allocateScan(AddrNext(ip), alloc, sn, gw, ps, pe)
    ELSE IF AddrString(ip) \notin alloc
    THEN [ip |-> AddrString(ip), err |-> NoErr]
    ELSE IF ip = pe \/ ~IsValid(AddrNext(ip))
    THEN [ip |-> "", err |-> ErrNoAvailable]
    ELSE allocateScan(AddrNext(ip), alloc, sn, gw, ps, pe)

\* A loop that does not stop at the pool end.
RECURSIVE allocateVisitsPastEnd(_, _, _, _, _, _)
allocateVisitsPastEnd(ip, alloc, sn, gw, ps, pe) ==
    IF sn \in Prefixes /\ ~Contains(sn, ip)
    THEN <<ip>>
    ELSE IF (IsValid(gw) /\ ip = gw) \/ AddrString(ip) \in alloc
    THEN IF ~IsValid(AddrNext(ip))
         THEN <<ip>>
         ELSE <<ip>> \o allocateVisitsPastEnd(AddrNext(ip), alloc, sn, gw, ps, pe)
    ELSE <<ip>>

\* The iterations of the for loop of allocateIP from the address ip on: the
\* value of ip in each of them, in order.
RECURSIVE allocateVisits(_, _, _, _, _, _)
allocateVisits(ip, alloc, sn, gw, ps, pe) ==
    IF sn \in Prefixes /\ ~Contains(sn, ip)
    THEN <<ip>>
    ELSE IF IsValid(gw) /\ ip = gw
    THEN IF ip = pe \/ ~IsValid(AddrNext(ip))
         THEN <<ip>>
         ELSE <<ip>> \o allocateVisits(AddrNext(ip), alloc, sn, gw, ps, pe)
    ELSE IF AddrString(ip) \notin alloc
    THEN <<ip>>
    ELSE IF ip = pe \/ ~IsValid(AddrNext(ip))
    THEN <<ip>>
    ELSE <<ip>> \o allocateVisits(AddrNext(ip), alloc, sn, gw, ps, pe)

\* A scan that wraps to the start of the subnet instead of stopping at the pool end.
allocateIPWrapping(alloc, sn, gw, ps, pe) ==
    LET free == { a \in sn.lo..sn.hi : a # gw /\ AddrString(a) \notin alloc }
        up   == { a \in free : a >= ps }
    IN IF free = {} THEN [ip |-> "", err |-> ErrNoAvailable]
       ELSE IF up # {} THEN [ip |-> AddrString(CHOOSE a \in up : \A b \in up : a <= b), err |-> NoErr]
       ELSE [ip |-> AddrString(CHOOSE a \in free : \A b \in free : a <= b), err |-> NoErr]

\* A scan that does not look at the allocation map.
allocateIPNoMap(alloc, sn, gw, ps, pe) ==
    allocateScan(ps, {}, sn, gw, ps, pe)

\* allocateIP: the value returned ([ip, err]); on success ip is also marked.
allocateIP(alloc, sn, gw, ps, pe) ==
    IF ~IsValid(ps) \/ ~IsValid(pe)
    THEN [ip |-> "", err |-> ErrNotConfigured]
    ELSE allocateScan(ps, alloc, sn, gw, ps, pe)

\* The allocation map after allocateIP returned r.
Marked(alloc, r) == IF r.err = NoErr THEN alloc \cup {r.ip} ELSE alloc

\* A release that leaves the address allocated.
deallocateIPKeeps(alloc, ip) == alloc

deallocateIP(alloc, ip) == alloc \ {ip}

----------------------------------------------------------------------------
(* The host firewall and the Controller instances that share it *)

\* The driver-owned chains: table, chain, and the built-in chain that jumps to it.
NatChain == [table |-> "nat", chain |-> "NOMAD_CH_PRT", builtin |-> "PREROUTING"]
FilterChain == [table |-> "filter", chain |-> "NOMAD_CH_FW", builtin |-> "FORWARD"]
OwnedChains == <<NatChain, FilterChain>>
ChainNames == {NatChain.chain, FilterChain.chain}

\* A host with iptables and none of the driver's chains.
EmptyTables == [tooling |-> TRUE, chains |-> {}, jumps |-> [c \in ChainNames |-> 0], rules |-> <<>>]
FreshFirewall == [now |-> EmptyTables, first |-> EmptyTables]

Instances == {1, 2}
IdleInstance == [pc |-> "idle", k |-> 1, created |-> <<FALSE, FALSE>>, tried |-> <<FALSE, FALSE>>,
                 failed |-> FALSE, ret |-> "none"]

----------------------------------------------------------------------------
(* The allocator on its own: every validated configuration *)

Names == {"vm1", "vm2"}
Threads == {1, 2}

NoCall == [op |-> "none", name |-> "", static |-> "", step |-> 0]
NoProc == [IP |-> "", Pid |-> 0]
NoRet == [op |-> "none", val |-> "none", events |-> <<>>]

\* The goroutines that call the read-only queries, none of them in a call.
Queries == {1, 2}
IdleQuery == [pc |-> "idle", fn |-> "none"]
\* The driver's context is not cancelled and monitorCtx waits for it.
NoCancel == [cancelled |-> FALSE, busy |-> FALSE, swept |-> FALSE, names |-> {}]

\* A host without a dnsmasq lease file.
NoLeases == [exists |-> FALSE, lines |-> <<>>, now |-> 0]
\* A host without PCI devices, and no VFIO call made.
NoDevices == [devs |-> <<>>, groupDevs |-> {}, writes |-> <<>>, calls |-> 0, last |-> [fn |-> "none"]]

\* NewWithSkipValidation: empty registry and allocation map, lock free,
\* monitorCtx waiting.
InitDriver ==
    /\ allocatedIPs = {}
    /\ allocLog = <<>>
    /\ allocBefore = {}
    /\ allocResult = [ip |-> "", err |-> NoErr]
    /\ released = [ip |-> "", was |-> FALSE]
    /\ processes = <<>>
    /\ workDirs = {} /\ taps = {} /\ virtiofsd = {}
    /\ vmm = [n \in Names |-> {}]
    /\ mu = 0
    /\ pc = [t \in Threads |-> "idle"]
    /\ call = [t \in Threads |-> NoCall]
    /\ proc = [t \in Threads |-> NoProc]
    /\ ret = NoRet
    /\ torn = [n \in Names |-> "none"]
    /\ derived = [fn |-> "none"]
    /\ launches = <<>>
    /\ inst = [i \in Instances |-> IdleInstance]
    /\ built = [fn |-> "none"]
    /\ down = [fn |-> "none", calls |-> 0]
    /\ query = [q \in Queries |-> IdleQuery]
    /\ ctx = NoCancel
    /\ vfio = NoDevices
    /\ lease = NoLeases

\* The configuration text a driver with these parsed fields was built from.
ConfigOf(sn, gw, ps, pe) ==
    [Bridge |-> "br0", SubnetCIDR |-> CidrString(sn.lo), Gateway |-> AddrString(gw),
     IPPoolStart |-> AddrString(ps), IPPoolEnd |-> AddrString(pe),
     TAPPrefix |-> "tap", present |-> TRUE]

\* Start returned nil on the driver's configuration.
Started ==
    /\ networkConfig = ConfigOf(subnet, gatewayIP, ipPoolStart, ipPoolEnd)
    /\ started = "nil"
    /\ ipt = FreshFirewall

\* A driver whose Start passed validateNetworkConfig, for any such configuration.
InitPool ==
    /\ subnet \in Prefixes
    /\ gatewayIP \in Addrs /\ ipPoolStart \in Addrs /\ ipPoolEnd \in Addrs
    /\ validateNetworkConfig(subnet, gatewayIP, ipPoolStart, ipPoolEnd)
    /\ Started
    /\ InitDriver

\* One allocateIP call (no release in between): SpecPool follows MaxCalls of them.
PoolAllocate ==
    /\ Len(allocLog) < MaxCalls
    /\ LET r == allocateIP(allocatedIPs, subnet, gatewayIP, ipPoolStart, ipPoolEnd)
       IN /\ allocatedIPs' = Marked(allocatedIPs, r)
          /\ allocLog' = Append(allocLog, r)
          /\ allocBefore' = allocatedIPs
          /\ allocResult' = r
    /\ UNCHANGED <<cfgVars, lateVars, auxVars, released, processes, hostVars, thrVars>>

NextPool == PoolAllocate
SpecPool == InitPool /\ [][NextPool]_vars

\* allocateIP on any allocation map: calls interleaved with releases.
Allocate ==
    /\ LET r == allocateIP(allocatedIPs, subnet, gatewayIP, ipPoolStart, ipPoolEnd)
       IN /\ allocatedIPs' = Marked(allocatedIPs, r)
          /\ allocBefore' = allocatedIPs
          /\ allocResult' = r
    /\ UNCHANGED <<cfgVars, lateVars, auxVars, allocLog, released, processes, hostVars, thrVars>>

\* deallocateIP(s) for any text s, allocated or not.
Release(s) ==
    /\ allocatedIPs' = deallocateIP(allocatedIPs, s)
    /\ released' = [ip |-> s, was |-> s \in allocatedIPs]
    /\ allocBefore' = {}
    /\ allocResult' = [ip |-> "", err |-> NoErr]
    /\ UNCHANGED <<cfgVars, lateVars, auxVars, allocLog, processes, hostVars, thrVars>>

NextAlloc ==
    \/ Allocate
    \/ \E a \in Addrs : Release(AddrString(a))

SpecAlloc == InitPool /\ [][NextAlloc]_vars

----------------------------------------------------------------------------
(* Host-side helpers of the lifecycle controller.  h is the host state    *)
(* [taps, virtiofsd, vmm]; n a VM name; p a VMProcess.                     *)

Host == [taps |-> taps, virtiofsd |-> virtiofsd, vmm |-> vmm]

\* setupNetworking: the VM's TAP interface exists afterwards.
setupNetworking(h, n) == [h EXCEPT !.taps = @ \cup {n}]

\* cleanupNetworking: the VM's TAP interface is removed.
cleanupNetworking(h, n) == [h EXCEPT !.taps = @ \ {n}]

\* startVirtiofsd: the VM's helper processes run afterwards.
startVirtiofsd(h, n) == [h EXCEPT !.virtiofsd = @ \cup {n}]

\* stopVirtiofsd: the VM's helper processes are terminated.
stopVirtiofsd(h, n) == [h EXCEPT !.virtiofsd = @ \ {n}]

\* The pids the driver holds: those of the registry entries and of the
\* entries the read-only queries copied.
HeldPids ==
    { processes[m].Pid : m \in DOMAIN processes }
        \cup { query[q].proc.Pid : q \in { r \in DOMAIN query : "proc" \in DOMAIN query[r] } }

\* The pid the kernel gives the next process: one that no live process has.
\* Pids are only compared, so the model takes the least one that is neither
\* live nor still held by the driver.
FreshPid(h) ==
    LET used == HeldPids \cup UNION { h.vmm[m] : m \in DOMAIN h.vmm }
    IN CHOOSE pid \in 1..(Cardinality(used) + 1) :
          /\ pid \notin used
          /\ \A other \in 1..(pid - 1) : other \in used

\* startCHProcess: one more VMM process runs for the VM.
startCHProcess(h, n) == [h EXCEPT !.vmm[n] = @ \cup {FreshPid(h)}]

\* process.Kill on p.Pid: the VMM process of p, if it has one that still runs.
killProcess(h, n, p) ==
    IF p.Pid > 0 THEN [h EXCEPT !.vmm[n] = @ \ {p.Pid}] ELSE h

\* cleanupProcess: force-stops the VMM process of p if it still runs,
\* terminates the helper processes and tears the networking down.
cleanupProcess(h, n, p) ==
    cleanupNetworking(stopVirtiofsd(killProcess(h, n, p), n), n)

\* shutdownVM asks the VMM that listens on the VM's control socket (a path
\* made of the VM name) to shut down: it can succeed only while a VMM process
\* of the VM runs, and that process then exits.
CanShutdown(h, n, p) == p.Pid > 0 /\ h.vmm[n] # {}
shutdownVM(h, n) == [h EXCEPT !.vmm[n] = @ \ {CHOOSE pid \in @ : TRUE}]

----------------------------------------------------------------------------
(* Goroutines calling the Driver.  CreateDomain, StopDomain and            *)
(* DestroyDomain run from d.mu.Lock() to the deferred d.mu.Unlock(); a     *)
(* goroutine is at "idle" between calls, at the name of the call once      *)
(* d.mu.Lock() has returned, and at "build" while CreateDomain runs its    *)
(* steps.                                                                  *)

\* The goroutine of monitorCtx, as a holder of d.mu.
Monitor == 3

\* A lock that excludes nobody.
LockBroken(t) == TRUE

\* d.mu.Lock() grants the lock to one goroutine at a time.
LockFree(t) == mu = 0

\* d.mu.Lock() at the head of CreateDomain, StopDomain and DestroyDomain: the
\* goroutine waits until the lock is free and holds it from then on.
Lock(t, op) ==
    /\ pc[t] = "idle"
    /\ LockFree(t)
    /\ mu' = t
    /\ pc' = [pc EXCEPT ![t] = op]
    /\ UNCHANGED <<cfgVars, lateVars, auxVars, allocatedIPs, allocVars, processes, hostVars,
                   call, proc, ret, torn>>

\* The deferred d.mu.Unlock() as the call returns.
Unlocked(t) ==
    /\ mu' = 0
    /\ pc' = [pc EXCEPT ![t] = "idle"]
    /\ call' = [call EXCEPT ![t] = NoCall]
    /\ proc' = [proc EXCEPT ![t] = NoProc]

\* The static_ip values of tasks that write an address of the pool in full.
LongStatics == { LongString(a) : a \in { b \in Addrs : ipPoolStart <= b /\ b <= ipPoolEnd } }

\* The static_ip values tasks carry: none, the text of an address in either
\* spelling, malformed text.
Statics ==
    {NoStatic, BadText} \cup { AddrString(a) : a \in { b \in Addrs : b + 1 >= subnet.lo } }
        \cup LongStatics

\* The call returns: what the caller gets back.
Returned(op, v, es) == ret' = [op |-> op, val |-> v, events |-> es]

----------------------------------------------------------------------------
(* Driver.CreateDomain *)

ErrExists == "VM already exists"
ErrMkdir == "failed to create work directory"
ErrStaticOutside == "static IP is outside configured subnet"
ErrStaticAllocated == "static IP is already allocated"
ErrAllocate == "failed to allocate IP"
ErrNotFound == "VM not found"
Ok == "nil"

\* A check that lets a registered name through.
AlreadyExistsNever(n) == FALSE

\* The duplicate check at the head of CreateDomain.
AlreadyExists(n) == n \in DOMAIN processes

\* The checks on a task's static_ip: a text that parses must lie in the
\* subnet (a text that does not parse is not checked), and the text must not
\* be a key of the allocation map.
StaticIPError(s, sn, alloc) ==
    IF sn \in Prefixes /\ IsValid(ParseAddr(s)) /\ ~Contains(sn, ParseAddr(s))
    THEN ErrStaticOutside
    ELSE IF s \in alloc THEN ErrStaticAllocated
    ELSE NoErr

\* CreateDomain(n, static_ip = s) from the return of d.mu.Lock() to
\* proc.IP = ip: the duplicate check, MkdirAll, and the choice of the address
\* (static_ip or allocateIP).  An error returns (and unlocks) at once.
CreateDomain_Prepare(t, n, s) ==
    /\ pc[t] = "create"
    /\ IF AlreadyExists(n)
       THEN /\ Returned("create", ErrExists, <<>>)
            /\ Unlocked(t)
            /\ UNCHANGED <<allocatedIPs, workDirs>>
       ELSE \/ /\ Returned("create", ErrMkdir, <<>>)          \* MkdirAll fails
               /\ Unlocked(t)
               /\ UNCHANGED <<allocatedIPs, workDirs>>
            \/ /\ workDirs' = workDirs \cup {n}
               /\ LET e == IF s # NoStatic
                           THEN StaticIPError(s, subnet, allocatedIPs)
                           ELSE allocateIP(allocatedIPs, subnet, gatewayIP,
                                           ipPoolStart, ipPoolEnd).err
                      ip == IF s # NoStatic
                            THEN s
                            ELSE allocateIP(allocatedIPs, subnet, gatewayIP,
                                            ipPoolStart, ipPoolEnd).ip
                  IN IF e # NoErr
                     THEN /\ Returned("create", IF s # NoStatic THEN e ELSE ErrAllocate, <<>>)
                          /\ Unlocked(t)
                          /\ UNCHANGED allocatedIPs
                     ELSE /\ allocatedIPs' = allocatedIPs \cup {ip}
                          /\ proc' = [proc EXCEPT ![t] = [IP |-> ip, Pid |-> 0]]
                          /\ call' = [call EXCEPT ![t] = [op |-> "create", name |-> n,
                                                          static |-> s, step |-> 1]]
                          /\ pc' = [pc EXCEPT ![t] = "build"]
                          /\ UNCHANGED <<mu, ret>>
    /\ UNCHANGED <<cfgVars, lateVars, auxVars, allocVars, processes, taps, virtiofsd, vmm, torn>>

\* The steps after the address is chosen, in the order CreateDomain runs them.
BuildSteps == <<"cloudinit", "networking", "virtiofsd", "config", "vfio", "startch", "boot">>

\* The steps that act on the host's interfaces and processes: all but
\* addVFIODevices, which acts on the PCI devices.
HostSteps == SelectSeq(BuildSteps, LAMBDA step : step # "vfio")

\* The effect of a completed host step on [h, alloc, p]: createCloudInit,
\* buildVMConfig and createAndBootVM leave the host's interfaces and
\* processes as they are.
StepDone(step, st, n) ==
    CASE step = "networking" -> [st EXCEPT !.h = setupNetworking(@, n)]
      [] step = "virtiofsd"  -> [st EXCEPT !.h = startVirtiofsd(@, n)]
      [] step = "startch"    -> [st EXCEPT !.h = startCHProcess(@, n), !.p.Pid = FreshPid(st.h)]
      [] step \in {"cloudinit", "config", "boot"} -> st

\* The state [h, alloc, p] after the host steps listed completed.
RECURSIVE StepsDone(_, _, _)
StepsDone(steps, st, n) ==
    IF steps = <<>> THEN st ELSE StepsDone(Tail(steps), StepDone(Head(steps), st, n), n)

\* The cleanup calls of each failure path of CreateDomain, in the order written.
UndoCalls(step) ==
    CASE step = "cloudinit"  -> <<"deallocateIP">>
      [] step = "networking" -> <<"deallocateIP">>
      [] step = "virtiofsd"  -> <<"deallocateIP", "cleanupNetworking", "cleanupProcess">>
      [] step = "config"     -> <<"deallocateIP", "cleanupNetworking", "stopVirtiofsd", "cleanupProcess">>
      [] step = "vfio"       -> <<"deallocateIP", "cleanupNetworking", "stopVirtiofsd">>
      [] step = "startch"    -> <<"deallocateIP", "cleanupNetworking", "stopVirtiofsd", "cleanupProcess">>
      [] step = "boot"       -> <<"cleanupProcess", "deallocateIP">>

\* One cleanup call applied to [h, alloc, p].
UndoCall(c, st, n) ==
    CASE c = "deallocateIP"      -> [st EXCEPT !.alloc = deallocateIP(@, st.p.IP)]
      [] c = "cleanupNetworking" -> [st EXCEPT !.h = cleanupNetworking(@, n)]
      [] c = "stopVirtiofsd"     -> [st EXCEPT !.h = stopVirtiofsd(@, n)]
      [] c = "cleanupProcess"    -> [st EXCEPT !.h = cleanupProcess(@, n, st.p)]

RECURSIVE Undo(_, _, _)
Undo(calls, st, n) ==
    IF calls = <<>> THEN st ELSE Undo(Tail(calls), UndoCall(Head(calls), st, n), n)

\* The registry after d.processes[config.Name] = proc.
Registered(n, p) ==
    [m \in DOMAIN processes \cup {n} |-> IF m = n THEN p ELSE processes[m]]

\* startCHProcess of goroutine t has launched the VMM process and returned an
\* error: the process runs, and the cleanup calls of the failure path are
\* still to come.
LaunchFailed(t) ==
    pc[t] = "build" /\ BuildSteps[call[t].step] = "startch" /\ proc[t].Pid > 0

\* One host step of CreateDomain: createCloudInit, setupNetworking,
\* startVirtiofsd, buildVMConfig, startCHProcess or createAndBootVM, whichever
\* comes next.  It succeeds (ok) and the call goes on to the next step, or,
\* after the last step, registers the VM and returns nil; or it fails, the
\* cleanup calls of its failure path run and the call returns the error.  A
\* failing startCHProcess may have launched the process: the process then
\* runs from the return of startCHProcess until cleanupProcess, the last call
\* of the failure path, kills it, and the cleanup is a step of its own.
CreateDomain_Step(t, ok, launched) ==
    /\ pc[t] = "build"
    /\ BuildSteps[call[t].step] # "vfio"
    /\ launched => (~ok /\ BuildSteps[call[t].step] = "startch")
    /\ LaunchFailed(t) => launched
    /\ LET n    == call[t].name
           step == BuildSteps[call[t].step]
           st0  == [h |-> Host, alloc |-> allocatedIPs, p |-> proc[t]]
       IN IF launched /\ ~LaunchFailed(t)
          THEN LET st == StepDone(step, st0, n)
               IN /\ vmm' = st.h.vmm
                  /\ proc' = [proc EXCEPT ![t] = st.p]
                  /\ UNCHANGED <<allocatedIPs, taps, virtiofsd, processes, torn, ret, mu, pc, call>>
          ELSE IF ok
          THEN LET st == StepDone(step, st0, n)
               IN /\ taps' = st.h.taps /\ virtiofsd' = st.h.virtiofsd /\ vmm' = st.h.vmm
                  /\ UNCHANGED allocatedIPs
                  /\ IF call[t].step = Len(BuildSteps)
                     THEN /\ processes' = Registered(n, st.p)
                          /\ torn' = [torn EXCEPT ![n] = "none"]
                          /\ Returned("create", Ok, <<>>)
                          /\ Unlocked(t)
                     ELSE /\ proc' = [proc EXCEPT ![t] = st.p]
                          /\ call' = [call EXCEPT ![t].step = @ + 1]
                          /\ UNCHANGED <<processes, torn, ret, mu, pc>>
          ELSE LET st  == Undo(UndoCalls(step), st0, n)
               IN /\ taps' = st.h.taps /\ virtiofsd' = st.h.virtiofsd /\ vmm' = st.h.vmm
                  /\ allocatedIPs' = st.alloc
                  /\ Returned("create", step, UndoCalls(step))
                  /\ Unlocked(t)
                  /\ UNCHANGED <<processes, torn>>
    /\ UNCHANGED <<cfgVars, lateVars, auxVars, allocVars, workDirs>>

----------------------------------------------------------------------------
(* Driver.StopDomain and Driver.DestroyDomain *)

ShutdownOk == "shutdownVM: nil"
ShutdownFailed == "shutdownVM: error"
Kill == "process.Kill"

ShutdownEvent(ok) == IF ok THEN ShutdownOk ELSE ShutdownFailed

\* The kill cleanupProcess issues: on the VMM process of p, if it still runs.
cleanupProcessEvents(h, n, p) == IF p.Pid > 0 /\ p.Pid \in h.vmm[n] THEN <<Kill>> ELSE <<>>

\* A StopDomain that kills whatever shutdownVM returned.
StopEventsAlwaysKill(ok, p) == <<ShutdownEvent(ok), Kill>>

\* What StopDomain does to the VMM process of p, in order: shutdownVM, and
\* process.Kill when shutdownVM returned an error and p has a process id.
StopEvents(ok, p) ==
    IF ok THEN <<ShutdownOk>>
    ELSE IF p.Pid > 0 THEN <<ShutdownFailed, Kill>>
    ELSE <<ShutdownFailed>>

\* One event applied to the host state.
ProcessEvent(e, h, n, p) ==
    CASE e = ShutdownOk -> shutdownVM(h, n)
      [] e = Kill       -> killProcess(h, n, p)
      [] OTHER          -> h

RECURSIVE ProcessEvents(_, _, _, _)
ProcessEvents(es, h, n, p) ==
    IF es = <<>> THEN h
    ELSE ProcessEvents(Tail(es), ProcessEvent(Head(es), h, n, p), n, p)

\* What DestroyDomain does to the VMM process of p, in order: shutdownVM
\* (its result is dropped), then cleanupProcess on the host as shutdownVM
\* left it.
DestroyEvents(ok, h, n, p) ==
    <<ShutdownEvent(ok)>>
        \o cleanupProcessEvents(ProcessEvent(ShutdownEvent(ok), h, n, p), n, p)

\* The registry after StopDomain(n): as before.
StopRegistry(n) == processes

\* The allocation map after StopDomain(n): as before.
StopAlloc(n) == allocatedIPs

\* StopDomain(n), from the return of d.mu.Lock() to its return.
StopDomain(t, n) ==
    /\ pc[t] = "stop"
    /\ IF n \notin DOMAIN processes
       THEN /\ Returned("stop", ErrNotFound, <<>>)
            /\ UNCHANGED <<allocatedIPs, processes, hostVars, torn>>
       ELSE \E ok \in BOOLEAN :
              LET p  == processes[n]
                  es == StopEvents(ok, p)
                  h  == ProcessEvents(es, Host, n, p)
              IN /\ ok => CanShutdown(Host, n, p)
                 /\ vmm' = h.vmm
                 /\ processes' = StopRegistry(n)
                 /\ allocatedIPs' = StopAlloc(n)
                 /\ torn' = [torn EXCEPT ![n] = "stopped"]
                 /\ Returned("stop", Ok, es)
                 /\ UNCHANGED <<workDirs, taps, virtiofsd>>
    /\ Unlocked(t)
    /\ UNCHANGED <<cfgVars, lateVars, auxVars, allocVars>>

\* The allocation map after DestroyDomain(n): proc.IP released.
DestroyAlloc(n) == deallocateIP(allocatedIPs, processes[n].IP)

\* The registry after delete(d.processes, name).
DestroyRegistry(n) == [m \in DOMAIN processes \ {n} |-> processes[m]]

\* What DestroyDomain returns for a name that is not registered.
DestroyMissing == ErrNotFound

\* DestroyDomain(n), from the return of d.mu.Lock() to its return.
DestroyDomain(t, n) ==
    /\ pc[t] = "destroy"
    /\ IF n \notin DOMAIN processes
       THEN /\ Returned("destroy", DestroyMissing, <<>>)
            /\ UNCHANGED <<allocatedIPs, processes, hostVars, torn>>
       ELSE \E ok \in BOOLEAN :
              LET p  == processes[n]
                  es == DestroyEvents(ok, Host, n, p)
                  h  == cleanupProcess(ProcessEvents(es, Host, n, p), n, p)
              IN /\ ok => CanShutdown(Host, n, p)
                 /\ taps' = h.taps /\ virtiofsd' = h.virtiofsd /\ vmm' = h.vmm
                 /\ allocatedIPs' = DestroyAlloc(n)
                 /\ processes' = DestroyRegistry(n)
                 /\ torn' = [torn EXCEPT ![n] = "destroyed"]
                 /\ Returned("destroy", Ok, es)
                 /\ UNCHANGED workDirs
    /\ Unlocked(t)
    /\ UNCHANGED <<cfgVars, lateVars, auxVars, allocVars>>

----------------------------------------------------------------------------
(* The lifecycle controller under concurrent callers *)

\* A started driver: subnet 4..7 (the scaled 192.168.254.0/24), gateway the
\* first address after the network address, and the pool 4..6, which passed
\* validateNetworkConfig: it holds two addresses beside the gateway.
Init ==
    /\ subnet = [lo |-> 4, hi |-> 7]
    /\ gatewayIP = subnet.lo + 1
    /\ ipPoolStart = 4 /\ ipPoolEnd = 6
    /\ validateNetworkConfig(subnet, gatewayIP, ipPoolStart, ipPoolEnd)
    /\ Started
    /\ InitDriver

----------------------------------------------------------------------------
(* The allocator: C1, C2 *)

PoolAddrs == { a \in Addrs : ipPoolStart <= a /\ a <= ipPoolEnd }
PoolCapacity == Cardinality({ a \in PoolAddrs : a # gatewayIP })

\* C1: successive allocateIP calls with no release in between return pairwise
\* distinct addresses; exactly (pool size, minus one if the gateway lies in
\* the pool) of them succeed and every later one fails with the
\* no-available-address error.
C1_DistinctUntilExhausted ==
    \A i \in 1..Len(allocLog) :
        IF i <= PoolCapacity
        THEN /\ allocLog[i].err = NoErr
             /\ \A j \in 1..(i - 1) : allocLog[j].ip # allocLog[i].ip
        ELSE allocLog[i] = [ip |-> "", err |-> ErrNoAvailable]

\* A pool holding the gateway and two more addresses was exhausted and the
\* next call failed.
C1_Witness ==
    /\ gatewayIP \in PoolAddrs
    /\ PoolCapacity >= 2
    /\ Len(allocLog) > PoolCapacity
    /\ allocLog[Len(allocLog)].err = ErrNoAvailable

\* The pool addresses allocateIP could have returned in its last call.
FreeBefore == { a \in PoolAddrs : a # gatewayIP /\ AddrString(a) \notin allocBefore }
Called == allocResult # [ip |-> "", err |-> NoErr]
Lowest(S) == CHOOSE a \in S : \A b \in S : a <= b

\* C2: allocateIP returns the lowest address of [pool start, pool end] that
\* is neither the gateway nor allocated, and fails with the
\* no-available-address error when there is none (it never wraps); on an
\* empty allocation map it returns the pool start.
C2_LowestFree ==
    Called =>
        /\ IF FreeBefore = {}
           THEN allocResult = [ip |-> "", err |-> ErrNoAvailable]
           ELSE allocResult = [ip |-> AddrString(Lowest(FreeBefore)), err |-> NoErr]
        /\ allocBefore = {} => allocResult.ip = AddrString(ipPoolStart)

\* The pool was full while an address of the subnet below the pool start was
\* free, and allocateIP failed instead of wrapping to it.
C2_Witness ==
    /\ allocResult.err = ErrNoAvailable
    /\ \E a \in Addrs : /\ Contains(subnet, a) /\ a < ipPoolStart /\ a # gatewayIP
                        /\ AddrString(a) \notin allocBefore
    /\ \E a \in PoolAddrs : AddrString(a) \in allocBefore

----------------------------------------------------------------------------
(* The lifecycle controller: C3 .. C10 *)

InSubnet(s) == IsValid(ParseAddr(s)) /\ Contains(subnet, ParseAddr(s))
InPool(s) == IsValid(ParseAddr(s)) /\ ParseAddr(s) \in PoolAddrs
IsGateway(s) == IsValid(ParseAddr(s)) /\ ParseAddr(s) = gatewayIP

\* C3: in every reachable state every address of the allocation map lies
\* within the subnet and within [pool start, pool end] and is not the gateway.
C3_AllocatedWithinBounds ==
    \A s \in allocatedIPs : InSubnet(s) /\ InPool(s) /\ ~IsGateway(s)

\* C4: CreateDomain for a registered name returns the already-exists error
\* and leaves the registry, the allocation map, the work directories, the
\* TAP interfaces, the helper processes and the VMM processes as they were.
C4_Step ==
    \A t \in Threads, n \in Names, s \in Statics :
        (CreateDomain_Prepare(t, n, s) /\ n \in DOMAIN processes) =>
            /\ ret' = [op |-> "create", val |-> ErrExists, events |-> <<>>]
            /\ pc'[t] = "idle"
            /\ UNCHANGED <<processes, allocatedIPs, workDirs, taps, virtiofsd, vmm>>
C4_DuplicateRejected == [][C4_Step]_vars

\* A CreateDomain was rejected for a name whose VM is registered and running.
C4_Witness ==
    /\ ret.op = "create" /\ ret.val = ErrExists
    /\ \E n \in DOMAIN processes : Cardinality(vmm[n]) = 1 /\ processes[n].IP \in allocatedIPs

\* The goroutines inside CreateDomain for name n, past the duplicate check.
Builders(n) == { t \in Threads : pc[t] = "build" /\ call[t].name = n }
\* The step a goroutine inside CreateDomain is to run next.
AtStep(t, step) == pc[t] = "build" /\ BuildSteps[call[t].step] = step

C5_Inv ==
    \A n \in Names :
        /\ Cardinality(vmm[n]) <= 1
        /\ Cardinality(Builders(n)) <= 1
        /\ n \in DOMAIN processes => Builders(n) = {}
        /\ (vmm[n] # {} /\ n \notin DOMAIN processes) =>
              \E t \in Builders(n) :
                 /\ AtStep(t, "boot") \/ LaunchFailed(t)
                 /\ vmm[n] = {proc[t].Pid}
C5_Step ==
    /\ \A n \in Names :
          (n \in DOMAIN processes' /\ n \notin DOMAIN processes) =>
              /\ \E t \in Builders(n) : AtStep(t, "boot") /\ CreateDomain_Step(t, TRUE, FALSE)
              /\ ret' = [op |-> "create", val |-> Ok, events |-> <<>>]
              /\ n \in workDirs' /\ n \in taps' /\ n \in virtiofsd'
              /\ vmm'[n] = {processes'[n].Pid} /\ processes'[n].Pid > 0
              /\ processes'[n].IP \in allocatedIPs'
    /\ \A t \in Threads :
          (pc[t] \in {"create", "build"} /\ pc'[t] = "idle" /\ ret'.val = Ok) =>
              /\ AtStep(t, "boot")
              /\ call[t].name \notin DOMAIN processes
              /\ call[t].name \in DOMAIN processes'

\* C5: however CreateDomain calls for one name interleave, at most one of
\* them is past the duplicate check at a time and none while the name is
\* registered, so at most one succeeds per registration; the name never has
\* more than one VMM process, also while a creation has launched one and not
\* yet registered it or killed it; and a name enters the registry only in the step in
\* which a creation that completed every step returns success.
C5_AtMostOneInstance == []C5_Inv /\ [][C5_Step]_vars

\* A creation has launched the VMM process of its VM and not yet registered
\* it, while the other VM is registered with its one VMM process.
C5_Witness ==
    \E t \in Threads :
        /\ AtStep(t, "boot")
        /\ Cardinality(vmm[call[t].name]) = 1
        /\ call[t].name \notin DOMAIN processes
        /\ \E m \in DOMAIN processes : Cardinality(vmm[m]) = 1

\* Two texts of one address (or one text twice).
SameAddress(s1, s2) ==
    \/ s1 = s2
    \/ IsValid(ParseAddr(s1)) /\ ParseAddr(s1) = ParseAddr(s2)

\* C7: StopDomain leaves the registry and the allocation map as they were,
\* and no creation is given the address of a stopped VM that is still
\* registered; DestroyDomain kills the VM's processes, removes its TAP
\* interface, releases its address and removes its registry entry, and
\* leaves every other VM's entry and address in place.
C7_Step ==
    /\ \A t \in Threads, n \in DOMAIN processes :
          StopDomain(t, n) =>
              /\ processes' = processes
              /\ allocatedIPs' = allocatedIPs
    /\ \A t \in Threads, n \in DOMAIN processes :
          DestroyDomain(t, n) =>
              /\ n \notin DOMAIN processes'
              /\ processes[n].IP \notin allocatedIPs'
              /\ n \notin taps' /\ n \notin virtiofsd' /\ vmm'[n] = {}
              /\ \A m \in DOMAIN processes \ {n} :
                    /\ m \in DOMAIN processes' /\ processes'[m] = processes[m]
                    /\ processes[m].IP \in allocatedIPs'
    /\ \A n \in DOMAIN processes, m \in DOMAIN processes' \ DOMAIN processes :
          torn[n] = "stopped" => ~SameAddress(processes'[m].IP, processes[n].IP)
C7_StopKeepsDestroyReleases == [][C7_Step]_vars

\* The first two parts of C7, which hold: what StopDomain keeps and what
\* DestroyDomain releases.
StopKeepsStep ==
    /\ \A t \in Threads, n \in DOMAIN processes :
          StopDomain(t, n) => (processes' = processes /\ allocatedIPs' = allocatedIPs)
    /\ \A t \in Threads, n \in DOMAIN processes :
          DestroyDomain(t, n) =>
              /\ n \notin DOMAIN processes'
              /\ processes[n].IP \notin allocatedIPs'
              /\ \A m \in DOMAIN processes \ {n} :
                    /\ m \in DOMAIN processes' /\ processes'[m] = processes[m]
                    /\ processes[m].IP \in allocatedIPs'
StopKeeps == [][StopKeepsStep]_vars

\* The events of the last StopDomain or DestroyDomain that found its VM.
Teardown == ret.op \in {"stop", "destroy"} /\ ret.val = Ok
KillAt(i) == i \in 1..Len(ret.events) /\ ret.events[i] = Kill
GracefulFirst ==
    /\ Len(ret.events) >= 1
    /\ ret.events[1] \in {ShutdownOk, ShutdownFailed}
    /\ ~KillAt(1)

C9_Step ==
    /\ \A t \in Threads, n \in Names :
          (StopDomain(t, n) /\ torn[n] = "stopped") =>
              /\ ret'.op = "stop" /\ ret'.val = Ok
              /\ UNCHANGED <<processes, allocatedIPs>>
    /\ \A t \in Threads, n \in Names :
          (DestroyDomain(t, n) /\ torn[n] = "destroyed") =>
              /\ ret'.op = "destroy" /\ ret'.val = Ok
              /\ UNCHANGED <<processes, allocatedIPs>>
C9_TeardownIdempotent == [][C9_Step]_vars

\* C10: CreateDomain with a static_ip that is not an address of the subnet
\* or is already allocated returns an error and leaves the allocation map
\* and the registry unchanged.
C10_Step ==
    \A t \in Threads, n \in Names, s \in Statics \ {NoStatic} :
        (CreateDomain_Prepare(t, n, s) /\ (~InSubnet(s) \/ s \in allocatedIPs)) =>
            /\ pc'[t] = "idle"
            /\ ret'.op = "create" /\ ret'.val # Ok
            /\ UNCHANGED <<allocatedIPs, processes>>
C10_StaticRevalidated == [][C10_Step]_vars

----------------------------------------------------------------------------
(* The allocator: C11 *)

\* The pool addresses below a that allocateIP may return.
PoolBelow(a) == { b \in PoolAddrs : b < a /\ b # gatewayIP }

\* C11: deallocateIP of a text that is not allocated leaves the allocation
\* map unchanged, releasing it a second time changes nothing more, and a
\* released pool address is free again: the next allocateIP succeeds and
\* returns that address unless a lower pool address is free.
C11_Step ==
    \A a \in Addrs :
        LET s == AddrString(a)
            r == allocateIP(allocatedIPs', subnet, gatewayIP, ipPoolStart, ipPoolEnd)
        IN Release(s) =>
              /\ s \notin allocatedIPs => allocatedIPs' = allocatedIPs
              /\ allocatedIPs' = allocatedIPs \ {s}
              /\ deallocateIP(allocatedIPs', s) = allocatedIPs'
              /\ (a \in PoolAddrs /\ a # gatewayIP) =>
                    /\ r.err = NoErr
                    /\ ParseAddr(r.ip) <= a
                    /\ (\A b \in PoolBelow(a) : AddrString(b) \in allocatedIPs') => r.ip = s
C11_ReleaseIdempotent == [][C11_Step]_vars

\* An allocated address was released and the allocation that followed
\* returned the same address.
C11_Witness ==
    /\ released.was
    /\ allocResult = [ip |-> released.ip, err |-> NoErr]
    /\ released.ip \notin allocBefore

----------------------------------------------------------------------------
(* Construction and Start on any configuration: C12 *)

\* The texts a configuration carries for an address and for the subnet.
ConfigAddrs == {"", BadText} \cup { AddrString(a) : a \in { b \in Addrs : b + 1 >= 4 } }
ConfigCidrs == {"", BadCidr} \cup { CidrString(a) : a \in {4, 5} }
NetworkConfigs ==
    { [Bridge |-> b, SubnetCIDR |-> c, Gateway |-> g, IPPoolStart |-> ps, IPPoolEnd |-> pe,
       TAPPrefix |-> "tap", present |-> TRUE] :
        b \in {"", "br0"}, c \in ConfigCidrs, g \in ConfigAddrs,
        ps \in ConfigAddrs, pe \in ConfigAddrs }
    \cup {NoNetwork}

\* NewWithSkipValidation on any configuration: Start not called yet.
InitStart ==
    /\ networkConfig \in NetworkConfigs
    /\ LET d == initializeNetworkConfig(networkConfig)
       IN /\ subnet = d.subnet /\ gatewayIP = d.gatewayIP
          /\ ipPoolStart = d.ipPoolStart /\ ipPoolEnd = d.ipPoolEnd
    /\ started = "none"
    /\ ipt = FreshFirewall
    /\ InitDriver

ErrBinaries == "cloud hypervisor binary validation failed"
ErrBridge == "failed to configure bridge"

\* Driver.Start: validateBinaries, validateNetworkConfig, then
\* ensureBridgeConfigured; host is what the host-side steps return.
Start(host) ==
    /\ started' = IF host = ErrBinaries THEN ErrBinaries
                  ELSE IF validateNetworkConfigError(networkConfig, subnet, gatewayIP,
                                                     ipPoolStart, ipPoolEnd) # "nil"
                  THEN ErrInvalidNetwork
                  ELSE host
    /\ started' # started
    /\ UNCHANGED <<cfgVars, lateVars, networkConfig, derived, launches, fwVars, allocatedIPs, allocVars, processes, hostVars, thrVars>>

\* Start, and CreateDomain calls, which the Driver accepts in any order.
NextStart ==
    \/ \E host \in {"nil", ErrBinaries, ErrBridge} : Start(host)
    \/ Lock(1, "create")
    \/ \E n \in Names : CreateDomain_Prepare(1, n, NoStatic)

SpecStart == InitStart /\ [][NextStart]_vars

ConfigValid ==
    /\ networkConfig.present /\ networkConfig.Bridge # ""
    /\ validateNetworkConfig(subnet, gatewayIP, ipPoolStart, ipPoolEnd)

\* C12: CreateDomain allocates an address only on a driver whose
\* configuration passes every check of validateNetworkConfig; Start returns
\* an error for every configuration that violates one; and no CreateDomain
\* on such a configuration comes back with an allocation error.
C12_ValidatedBeforeUse ==
    /\ allocatedIPs # {} => ConfigValid
    /\ (started # "none" /\ ~ConfigValid) => started # "nil"
    /\ (ret.op = "create" /\ ret.val = ErrAllocate) => ConfigValid

----------------------------------------------------------------------------
(* Driver.deriveNetworkSettings, its use in CreateDomain, and the guest    *)
(* address of Controller.VMStartedBuild: C13, C14, C15                     *)

\* An IPv6 prefix such as fd00::/64: valid, with a length above 32.
V6Prefix == [lo |-> 0, hi |-> MaxAddr]
PrefixIsValid(p) == p \in Prefixes \/ p = V6Prefix

\* netip.Prefix.Bits
PrefixBits(p) == IF p \in Prefixes THEN 30 ELSE IF p = V6Prefix THEN 64 ELSE -1

\* strconv.Atoi on the texts a netmask is given as: [ok, v].
AtoiRange == (0 - 1)..33
Atoi(s) ==
    IF \E i \in AtoiRange : ToString(i) = s
    THEN [ok |-> TRUE, v |-> CHOOSE i \in AtoiRange : ToString(i) = s]
    ELSE [ok |-> FALSE, v |-> 0]

\* A netmask override that accepts every integer.
NetmaskBitsAny(s, bits) == IF Atoi(s).ok THEN Atoi(s).v ELSE bits

\* The cidrBits after the bridge.Netmask override s is applied to bits.
NetmaskBits(s, bits) ==
    IF Atoi(s).ok /\ Atoi(s).v >= 0 /\ Atoi(s).v <= 32 THEN Atoi(s).v ELSE bits

\* config.NetworkInterfaces[0].Bridge == nil
NoBridge == [present |-> FALSE, StaticIP |-> "", Gateway |-> "", Netmask |-> "", DNS |-> <<>>]
\* config == nil, and a config without network interfaces.
NilConfig == [kind |-> "nil", Bridge |-> NoBridge]
EmptyConfig == [kind |-> "empty", Bridge |-> NoBridge]
HasBridge(config) == config.kind = "iface" /\ config.Bridge.present

DefaultNameservers == <<"8.8.8.8", "8.8.4.4">>

\* A derivation in which the address of the process wins over static_ip.
deriveNetworkSettingsProcFirst(sn, gw, nc, config, p) ==
    LET b == config.Bridge
        br == HasBridge(config)
        address == IF p.present /\ p.IP # "" THEN p.IP
                   ELSE IF br /\ b.StaticIP # "" THEN b.StaticIP ELSE ""
        gateway0 == IF IsValid(gw) THEN AddrString(gw)
                    ELSE IF nc.present /\ nc.Gateway # "" THEN nc.Gateway ELSE ""
        bits0 == IF PrefixIsValid(sn) THEN PrefixBits(sn) ELSE 0 - 1
        bits1 == IF br /\ b.Netmask # "" THEN NetmaskBits(b.Netmask, bits0) ELSE bits0
    IN [address |-> address,
        gateway |-> IF br /\ b.Gateway # "" THEN b.Gateway ELSE gateway0,
        cidrBits |-> IF bits1 < 0 THEN 24 ELSE bits1,
        nameservers |-> IF br /\ Len(b.DNS) > 0 THEN b.DNS ELSE DefaultNameservers,
        interfaceName |-> "eth0",
        ok |-> address # ""]

\* Driver.deriveNetworkSettings(config, proc) on a driver with the parsed
\* fields sn, gw and the configuration nc: the settings and ok.
deriveNetworkSettings(sn, gw, nc, config, p) ==
    LET b == config.Bridge
        br == HasBridge(config)
        address0 == IF p.present /\ p.IP # "" THEN p.IP ELSE ""
        bits0 == IF PrefixIsValid(sn) THEN PrefixBits(sn) ELSE 0 - 1
        gateway0 == IF IsValid(gw) THEN AddrString(gw)
                    ELSE IF nc.present /\ nc.Gateway # "" THEN nc.Gateway ELSE ""
        address1 == IF br /\ b.StaticIP # "" THEN b.StaticIP ELSE address0
        gateway1 == IF br /\ b.Gateway # "" THEN b.Gateway ELSE gateway0
        bits1 == IF br /\ b.Netmask # "" THEN NetmaskBits(b.Netmask, bits0) ELSE bits0
        ns1 == IF br /\ Len(b.DNS) > 0 THEN b.DNS ELSE DefaultNameservers
    IN [address |-> address1,
        gateway |-> gateway1,
        cidrBits |-> IF bits1 < 0 THEN 24 ELSE bits1,
        nameservers |-> ns1,
        interfaceName |-> "eth0",
        ok |-> address1 # ""]

\* strings.Join(ns, " ")
RECURSIVE JoinSpace(_)
JoinSpace(ns) ==
    IF ns = <<>> THEN ""
    ELSE IF Len(ns) = 1 THEN ns[1]
    ELSE ns[1] \o " " \o JoinSpace(Tail(ns))

\* An environment without the key k, and with k set to v.
EnvDelete(env, k) == [x \in DOMAIN env \ {k} |-> env[x]]
EnvSet(env, k, v) == [x \in DOMAIN env \cup {k} |-> IF x = k THEN v ELSE env[x]]

\* The env after CreateDomain applied the derived settings st to it.
CreateDomainEnv(env, st) ==
    IF ~st.ok THEN env
    ELSE LET e1 == EnvSet(EnvSet(env, "VM_IP", st.address), "VM_CIDR", ToString(st.cidrBits))
             e2 == IF st.gateway # "" THEN EnvSet(e1, "VM_GATEWAY", st.gateway)
                   ELSE EnvDelete(e1, "VM_GATEWAY")
         IN IF Len(st.nameservers) > 0 THEN EnvSet(e2, "VM_DNS", JoinSpace(st.nameservers))
            ELSE EnvDelete(e2, "VM_DNS")

\* The guest address VMStartedBuild uses: [ip, err].
ErrNoGuestIP == "virtualizer did not provide IP address"
GuestAddress(guestIPs, b) ==
    IF Len(guestIPs) > 0 /\ guestIPs[1] # "" THEN [ip |-> guestIPs[1], err |-> "nil"]
    ELSE IF b.present /\ b.StaticIP # "" THEN [ip |-> b.StaticIP, err |-> "nil"]
    ELSE [ip |-> "", err |-> ErrNoGuestIP]

\* The inputs followed.
StaticTexts == {"", "10.0.0.50"}
GatewayTexts == {"", "10.0.0.1"}
NetmaskTexts == {"", "abc", "25"} \cup { ToString(i) : i \in {0 - 1, 0, 32, 33} }
DNSLists == {<<>>, <<"1.1.1.1", "9.9.9.9">>}
Bridges ==
    { [present |-> TRUE, StaticIP |-> a, Gateway |-> g, Netmask |-> m, DNS |-> d] :
        a \in StaticTexts, g \in GatewayTexts, m \in NetmaskTexts, d \in DNSLists }
Configs == {NilConfig, EmptyConfig} \cup { [kind |-> "iface", Bridge |-> b] : b \in Bridges \cup {NoBridge} }
Procs == { [present |-> FALSE, IP |-> ""], [present |-> TRUE, IP |-> ""],
           [present |-> TRUE, IP |-> "192.168.254.15"] }
Envs == { <<>>, [k \in {"VM_GATEWAY", "VM_DNS", "A"} |-> "old"] }
GuestIPLists == { <<>>, <<"">>, <<"192.168.254.15">> }

\* Drivers built from a configuration with an IPv4 subnet, an IPv6 subnet
\* or none, with and without a gateway.
InitDerive ==
    /\ networkConfig \in { nc \in NetworkConfigs :
                             nc.IPPoolStart = "" /\ nc.IPPoolEnd = "" /\ nc.Bridge # "" }
    /\ LET d == initializeNetworkConfig(networkConfig)
       IN /\ subnet \in {d.subnet} \cup (IF d.subnet # InvalidPrefix THEN {V6Prefix} ELSE {})
          /\ gatewayIP = d.gatewayIP
          /\ ipPoolStart = d.ipPoolStart /\ ipPoolEnd = d.ipPoolEnd
    /\ started = "none"
    /\ ipt = FreshFirewall
    /\ InitDriver

\* deriveNetworkSettings(config, proc) as CreateDomain calls it on env.
\* One call is followed per behaviour: the function keeps no state.
Derive(config, p, env) ==
    /\ derived.fn = "none"
    /\ LET st == deriveNetworkSettings(subnet, gatewayIP, networkConfig, config, p)
       IN derived' = [fn |-> "derive", config |-> config, proc |-> p, settings |-> st,
                      envIn |-> env, env |-> CreateDomainEnv(env, st)]
    /\ UNCHANGED <<cfgVars, lateVars, networkConfig, started, launches, fwVars, allocatedIPs, allocVars, processes, hostVars, thrVars>>

\* The guest address of VMStartedBuild for a request.
ResolveGuest(guestIPs, b) ==
    /\ derived.fn = "none"
    /\ derived' = [fn |-> "guest", guestIPs |-> guestIPs, Bridge |-> b,
                   result |-> GuestAddress(guestIPs, b)]
    /\ UNCHANGED <<cfgVars, lateVars, networkConfig, started, launches, fwVars, allocatedIPs, allocVars, processes, hostVars, thrVars>>

NextDerive ==
    \/ \E config \in Configs, p \in Procs, env \in Envs : Derive(config, p, env)
    \/ \E guestIPs \in GuestIPLists, b \in Bridges \cup {NoBridge} : ResolveGuest(guestIPs, b)

SpecDerive == InitDerive /\ [][NextDerive]_vars


IsDerive == derived.fn = "derive"
IsGuest == derived.fn = "guest"
ProcAddress == IF derived.proc.present THEN derived.proc.IP ELSE ""
StaticAddress == IF HasBridge(derived.config) THEN derived.config.Bridge.StaticIP ELSE ""
GuestReported == IF Len(derived.guestIPs) > 0 THEN derived.guestIPs[1] ELSE ""

\* C13 as stated: in deriveNetworkSettings and in VMStartedBuild the address
\* reported for the launched process comes first, then the task's static_ip.
C13_ProcessAddressFirst ==
    /\ IsDerive =>
          /\ ProcAddress # "" => derived.settings.address = ProcAddress
          /\ (ProcAddress = "" /\ StaticAddress # "") => derived.settings.address = StaticAddress
    /\ IsGuest =>
          /\ GuestReported # "" => derived.result.ip = GuestReported
          /\ (GuestReported = "" /\ derived.Bridge.StaticIP # "") =>
                derived.result.ip = derived.Bridge.StaticIP

\* C13, amended: VMStartedBuild uses the address reported by the virtualizer
\* before the task's static_ip and fails when there is neither;
\* deriveNetworkSettings uses the task's static_ip before the address of the
\* VMProcess, and produces no address when there is neither.
C13_AddressPrecedence ==
    /\ IsDerive =>
          derived.settings.address =
              IF StaticAddress # "" THEN StaticAddress ELSE ProcAddress
    /\ IsGuest =>
          /\ GuestReported # "" => derived.result = [ip |-> GuestReported, err |-> "nil"]
          /\ (GuestReported = "" /\ derived.Bridge.StaticIP # "") =>
                derived.result = [ip |-> derived.Bridge.StaticIP, err |-> "nil"]
          /\ (GuestReported = "" /\ derived.Bridge.StaticIP = "") =>
                derived.result.err = ErrNoGuestIP

\* deriveNetworkSettings was given a process address and a different
\* static_ip and returned the static_ip.
C13_Witness ==
    /\ IsDerive
    /\ ProcAddress # "" /\ StaticAddress # "" /\ ProcAddress # StaticAddress
    /\ derived.settings.address = StaticAddress

\* What deriveNetworkSettings returns for the same driver and process when
\* the task overrides nothing.
Defaults ==
    deriveNetworkSettings(subnet, gatewayIP, networkConfig, EmptyConfig, derived.proc)
NetmaskInRange(m) == \E i \in 0..32 : ToString(i) = m

\* C14: each of static_ip, gateway, netmask and dns the task's bridge block
\* gives is returned verbatim (the netmask as its integer) in place of the
\* default; a field not given, or a netmask that is not an integer in 0..32,
\* leaves the default.
C14_OverridesVerbatim ==
    (IsDerive /\ HasBridge(derived.config)) =>
        LET b == derived.config.Bridge
            st == derived.settings
        IN /\ st.address = IF b.StaticIP # "" THEN b.StaticIP ELSE Defaults.address
           /\ st.gateway = IF b.Gateway # "" THEN b.Gateway ELSE Defaults.gateway
           /\ IF NetmaskInRange(b.Netmask)
              THEN ToString(st.cidrBits) = b.Netmask
              ELSE st.cidrBits = Defaults.cidrBits
           /\ st.nameservers = IF b.DNS # <<>> THEN b.DNS ELSE Defaults.nameservers

\* All four overrides were given on a driver with a subnet, a gateway and a
\* process address of its own, and all four came back.
C14_Witness ==
    /\ IsDerive /\ HasBridge(derived.config)
    /\ subnet \in Prefixes /\ IsValid(gatewayIP) /\ ProcAddress # ""
    /\ derived.settings = [address |-> "10.0.0.50", gateway |-> "10.0.0.1", cidrBits |-> 25,
                           nameservers |-> <<"1.1.1.1", "9.9.9.9">>,
                           interfaceName |-> "eth0", ok |-> TRUE]

\* C15: with no static_ip and no process address deriveNetworkSettings
\* returns ok = false and CreateDomain leaves the environment as it was;
\* whenever ok is true the address is not empty and the prefix length is
\* in 0..32.
C15_NoAddressNoSettings ==
    IsDerive =>
        /\ (ProcAddress = "" /\ StaticAddress = "") =>
              /\ ~derived.settings.ok
              /\ derived.env = derived.envIn
        /\ derived.settings.ok =>
              /\ derived.settings.address # ""
              /\ derived.settings.cidrBits \in 0..32

----------------------------------------------------------------------------
(* Driver.generateMAC and the TAP name of CreateDomain: C16, C17 *)

\* Number of launches followed, and the times (UnixNano) they happen at.
MaxLaunches == 3
MaxTime == 3

\* The code points of a VM name.
NameChars(n) ==
    CASE n = "vm1" -> <<118, 109, 49>>
      [] n = "vm2" -> <<118, 109, 50>>

\* hash = hash*31 + int(c) over the name.  Only the low 24 bits of hash
\* reach the MAC, and they are the same whether or not the int overflowed.
RECURSIVE NameHash(_, _)
NameHash(cs, hash) ==
    IF cs = <<>> THEN hash
    ELSE NameHash(Tail(cs), (hash * 31 + Head(cs)) % (2 ^ 24))

\* fmt.Sprintf("%02x", byte(hash >> shift))
HexDigits == <<"0", "1", "2", "3", "4", "5", "6", "7", "8", "9", "a", "b", "c", "d", "e", "f">>
Hex2(b) == HexDigits[(b \div 16) + 1] \o HexDigits[(b % 16) + 1]
ByteAt(hash, shift) == (hash \div (2 ^ shift)) % 256
MACOf(hash) ==
    "52:54:00:" \o Hex2(ByteAt(hash, 16)) \o ":" \o Hex2(ByteAt(hash, 8)) \o ":"
                \o Hex2(ByteAt(hash, 0))

\* A MAC that also depends on how many addresses are allocated.
generateMACSalted(vmName) == MACOf(NameHash(NameChars(vmName), Cardinality(allocatedIPs)))

\* Driver.generateMAC
generateMAC(vmName) == MACOf(NameHash(NameChars(vmName), 0))

\* fmt.Sprintf("%02x", b), as characters.
HexChars(b) == << HexDigits[(b \div 16) + 1], HexDigits[(b % 16) + 1] >>

\* Controller.generateDeterministicMAC: "52:54:00:xx:xx:xx" from the name's
\* hash, as characters.
generateDeterministicMAC(domainName) ==
    LET hash == NameHash(NameChars(domainName), 0)
    IN <<"5", "2", ":", "5", "4", ":", "0", "0", ":">>
       \o HexChars(ByteAt(hash, 16)) \o <<":">> \o HexChars(ByteAt(hash, 8)) \o <<":">>
       \o HexChars(ByteAt(hash, 0))

\* crypto/sha256 on words of 32 bits, each written <<high half, low half>>.
\* The bitwise operators on halves of 16 bits.
RECURSIVE XorBits(_, _)
XorBits(a, b) ==
    IF a = 0 THEN b ELSE IF b = 0 THEN a
    ELSE (((a % 2) + (b % 2)) % 2) + 2 * XorBits(a \div 2, b \div 2)
RECURSIVE AndBits(_, _)
AndBits(a, b) ==
    IF a = 0 \/ b = 0 THEN 0
    ELSE ((a % 2) * (b % 2)) + 2 * AndBits(a \div 2, b \div 2)
\* The same on digits of four bits, tabulated, and on halves digit by digit.
Xor4 == [a \in 0..15 |-> [b \in 0..15 |-> XorBits(a, b)]]
And4 == [a \in 0..15 |-> [b \in 0..15 |-> AndBits(a, b)]]
Xor16(a, b) ==
    Xor4[a % 16][b % 16] + 16 * Xor4[(a \div 16) % 16][(b \div 16) % 16]
        + 256 * Xor4[(a \div 256) % 16][(b \div 256) % 16]
        + 4096 * Xor4[a \div 4096][b \div 4096]
And16(a, b) ==
    And4[a % 16][b % 16] + 16 * And4[(a \div 16) % 16][(b \div 16) % 16]
        + 256 * And4[(a \div 256) % 16][(b \div 256) % 16]
        + 4096 * And4[a \div 4096][b \div 4096]

WordXor(x, y) == <<Xor16(x[1], y[1]), Xor16(x[2], y[2])>>
WordAnd(x, y) == <<And16(x[1], y[1]), And16(x[2], y[2])>>
WordNot(x) == <<65535 - x[1], 65535 - x[2]>>
\* Addition modulo 2^32.
WordAdd(x, y) ==
    LET lo == x[2] + y[2]
        hi == x[1] + y[1] + (lo \div 65536)
    IN <<hi % 65536, lo % 65536>>
\* bits.RotateLeft32(x, -n)
RECURSIVE RotateRight(_, _)
RotateRight(x, n) ==
    IF n = 0 THEN x
    ELSE IF n >= 16 THEN RotateRight(<<x[2], x[1]>>, n - 16)
    ELSE <<(x[1] \div (2 ^ n)) + (x[2] % (2 ^ n)) * (2 ^ (16 - n)),
           (x[2] \div (2 ^ n)) + (x[1] % (2 ^ n)) * (2 ^ (16 - n))>>
\* x >> n
ShiftRight(x, n) ==
    IF n >= 16 THEN <<0, x[1] \div (2 ^ (n - 16))>>
    ELSE <<x[1] \div (2 ^ n), (x[2] \div (2 ^ n)) + (x[1] % (2 ^ n)) * (2 ^ (16 - n))>>

\* The round constants and the initial hash value of SHA-256.
sha256K ==
    <<
       <<17034, 12184>>, <<28983, 17553>>, <<46528, 64463>>, <<59829, 56229>>,
       <<14678, 49755>>, <<23025, 4593>>, <<37439, 33444>>, <<43804, 24277>>,
       <<55303, 43672>>, <<4739, 23297>>, <<9265, 34238>>, <<21772, 32195>>,
       <<29374, 23924>>, <<32990, 45566>>, <<39900, 1703>>, <<49563, 61812>>,
       <<58523, 27073>>, <<61374, 18310>>, <<4033, 40390>>, <<9228, 41420>>,
       <<11753, 11375>>, <<19060, 33962>>, <<23728, 43484>>, <<30457, 35034>>,
       <<38974, 20818>>, <<43057, 50797>>, <<45059, 10184>>, <<48985, 32711>>,
       <<50912, 3059>>, <<54695, 37191>>, <<1738, 25425>>, <<5161, 10599>>,
       <<10167, 2693>>, <<11803, 8504>>, <<19756, 28156>>, <<21304, 3347>>,
       <<25866, 29524>>, <<30314, 2747>>, <<33218, 51502>>, <<37490, 11397>>,
       <<41663, 59553>>, <<43034, 26187>>, <<49739, 35696>>, <<51052, 20899>>,
       <<53650, 59417>>, <<54937, 1572>>, <<62478, 13701>>, <<4202, 41072>>,
       <<6564, 49430>>, <<7735, 27656>>, <<10056, 30540>>, <<13488, 48309>>,
       <<14620, 3251>>, <<20184, 43594>>, <<23452, 51791>>, <<26670, 28659>>,
       <<29839, 33518>>, <<30885, 25455>>, <<33992, 30740>>, <<36039, 520>>,
       <<37054, 65530>>, <<42064, 27883>>, <<48889, 41975>>, <<50801, 30962>>
    >>
sha256Init ==
    <<
       <<27145, 58983>>, <<47975, 44677>>, <<15470, 62322>>, <<42319, 62778>>,
       <<20750, 21119>>, <<39685, 26764>>, <<8067, 55723>>, <<23520, 52505>>
    >>

\* The message schedule of one block: 16 words extended to 64.
RECURSIVE sha256Schedule(_)
sha256Schedule(w) ==
    IF Len(w) >= 64 THEN w
    ELSE LET t  == Len(w) + 1
             v1 == w[t - 2]
             v2 == w[t - 15]
             t1 == WordXor(WordXor(RotateRight(v1, 17), RotateRight(v1, 19)), ShiftRight(v1, 10))
             t2 == WordXor(WordXor(RotateRight(v2, 7), RotateRight(v2, 18)), ShiftRight(v2, 3))
         IN sha256Schedule(Append(w, WordAdd(WordAdd(t1, w[t - 7]), WordAdd(t2, w[t - 16]))))

\* Round t of the compression, on the working variables <<a, ..., h>>.
sha256Round(v, w, t) ==
    LET a == v[1]  b == v[2]  c == v[3]  d == v[4]
        e == v[5]  f == v[6]  g == v[7]  h == v[8]
        s1 == WordXor(WordXor(RotateRight(e, 6), RotateRight(e, 11)), RotateRight(e, 25))
        ch == WordXor(WordAnd(e, f), WordAnd(WordNot(e), g))
        t1 == WordAdd(WordAdd(WordAdd(h, s1), WordAdd(ch, sha256K[t])), w[t])
        s0 == WordXor(WordXor(RotateRight(a, 2), RotateRight(a, 13)), RotateRight(a, 22))
        mj == WordXor(WordXor(WordAnd(a, b), WordAnd(a, c)), WordAnd(b, c))
        t2 == WordAdd(s0, mj)
    IN <<WordAdd(t1, t2), a, b, c, WordAdd(d, t1), e, f, g>>

\* The 64 rounds: vs lists the working variables before round 1 and after
\* each round made so far.
RECURSIVE sha256Rounds(_, _)
sha256Rounds(vs, w) ==
    IF Len(vs) > 64 THEN vs[Len(vs)]
    ELSE sha256Rounds(Append(vs, sha256Round(vs[Len(vs)], w, Len(vs))), w)

\* One block of 64 bytes folded into the hash value h.
sha256Block(h, bytes) ==
    LET w0 == [i \in 1..16 |-> <<bytes[4 * i - 3] * 256 + bytes[4 * i - 2],
                                 bytes[4 * i - 1] * 256 + bytes[4 * i]>>]
        v  == sha256Rounds(<<h>>, sha256Schedule(w0))
    IN [i \in 1..8 |-> WordAdd(h[i], v[i])]

RECURSIVE sha256Blocks(_, _)
sha256Blocks(h, bytes) ==
    IF bytes = <<>> THEN h
    ELSE sha256Blocks(sha256Block(h, SubSeq(bytes, 1, 64)), SubSeq(bytes, 65, Len(bytes)))

\* The padding: 0x80, zeros up to 56 modulo 64, and the length in bits as
\* eight bytes, most significant first (texts here are shorter than 2^13 bytes).
sha256Pad(msg) ==
    LET zeros == (64 - ((Len(msg) + 9) % 64)) % 64
        bits  == 8 * Len(msg)
    IN msg \o <<128>> \o [i \in 1..zeros |-> 0]
           \o <<0, 0, 0, 0, 0, 0, bits \div 256, bits % 256>>

\* sha256.Sum256: the digest as eight words.
sha256Sum256(msg) == sha256Blocks(sha256Init, sha256Pad(msg))

\* fmt.Sprintf("%d", k) for k >= 0, as bytes.
RECURSIVE DecimalBytes(_)
DecimalBytes(k) ==
    IF k < 10 THEN <<48 + k>> ELSE DecimalBytes(k \div 10) \o <<48 + (k % 10)>>

\* fmt.Sprintf("%x", word)
HexWord(x) ==
    Hex2(x[1] \div 256) \o Hex2(x[1] % 256) \o Hex2(x[2] \div 256) \o Hex2(x[2] % 256)

\* fmt.Sprintf("%x", sha256.Sum256([]byte(fmt.Sprintf("%s-%d", name, now))))[:8]
sha256Hex8(n, now) ==
    HexWord(sha256Sum256(NameChars(n) \o <<45>> \o DecimalBytes(now))[1])

\* The values for the names and times of the launches followed, computed once.
nameHashes == [n \in Names |-> [now \in 1..MaxTime |-> sha256Hex8(n, now)]]

\* nameHash of CreateDomain: the first eight hex characters of sha256(name-time).
nameHash(n, now) ==
    IF n \in DOMAIN nameHashes /\ now \in DOMAIN nameHashes[n]
    THEN nameHashes[n][now]
    ELSE sha256Hex8(n, now)

\* proc.TapName
TapName(prefix, n, now) == prefix \o nameHash(n, now)

\* Config.initDefaults: an empty tap_prefix becomes "tap".
TapPrefixDefault(prefix) == IF prefix = "" THEN "tap" ELSE prefix
TapPrefixes == {"", "t", "tap", "vmtap", "nomad-tap"}

\* A started driver (any pool of the lifecycle) with any tap_prefix.
InitLaunch ==
    /\ subnet = [lo |-> 4, hi |-> 7]
    /\ gatewayIP = subnet.lo + 1
    /\ \E pool \in {<<4, 6>>, <<6, 7>>} :
          ipPoolStart = pool[1] /\ ipPoolEnd = pool[2]
    /\ \E prefix \in TapPrefixes :
          networkConfig = [ConfigOf(subnet, gatewayIP, ipPoolStart, ipPoolEnd)
                              EXCEPT !.TAPPrefix = TapPrefixDefault(prefix)]
    /\ started = "nil"
    /\ ipt = FreshFirewall
    /\ InitDriver

LastTime == IF launches = <<>> THEN 0 ELSE launches[Len(launches)].time

\* A CreateDomain(n) at time now, for a task without passthrough devices, in
\* which every step succeeds: the work directory, the address, the MAC and
\* the TAP name, the steps from createCloudInit to createAndBootVM, and the
\* registration.
Launch(n, now) ==
    /\ Len(launches) < MaxLaunches
    /\ now > LastTime
    /\ ~AlreadyExists(n)
    /\ LET r   == allocateIP(allocatedIPs, subnet, gatewayIP, ipPoolStart, ipPoolEnd)
           mac == generateMAC(n)
           tap == TapName(networkConfig.TAPPrefix, n, now)
           st0 == [h |-> Host, alloc |-> Marked(allocatedIPs, r), p |-> [IP |-> r.ip, Pid |-> 0]]
           st  == StepsDone(HostSteps, st0, n)
       IN /\ r.err = NoErr
          /\ workDirs' = workDirs \cup {n}
          /\ allocatedIPs' = st.alloc
          /\ taps' = st.h.taps /\ virtiofsd' = st.h.virtiofsd /\ vmm' = st.h.vmm
          /\ processes' = Registered(n, st.p)
          /\ launches' = Append(launches, [name |-> n, time |-> now, mac |-> mac, tap |-> tap,
                                           ips |-> allocatedIPs, registry |-> DOMAIN processes])
    /\ UNCHANGED <<cfgVars, lateVars, networkConfig, started, derived, fwVars, allocVars, thrVars>>

\* A DestroyDomain(n) of a registered VM: shutdownVM (which may fail),
\* cleanupProcess, deallocateIP and the removal from the registry.
Remove(n) ==
    /\ n \in DOMAIN processes
    /\ \E ok \in BOOLEAN :
          LET p == processes[n]
              h == cleanupProcess(ProcessEvents(DestroyEvents(ok, Host, n, p), Host, n, p), n, p)
          IN /\ ok => CanShutdown(Host, n, p)
             /\ taps' = h.taps /\ virtiofsd' = h.virtiofsd /\ vmm' = h.vmm
    /\ allocatedIPs' = DestroyAlloc(n)
    /\ processes' = DestroyRegistry(n)
    /\ UNCHANGED <<cfgVars, lateVars, auxVars, allocVars, workDirs, thrVars>>

\* The driver process is restarted: a new Driver with an empty registry and
\* an empty allocation map.
Restart ==
    /\ processes # <<>>
    /\ processes' = <<>>
    /\ allocatedIPs' = {}
    /\ UNCHANGED <<cfgVars, lateVars, auxVars, allocVars, hostVars, thrVars>>

NextLaunch ==
    \/ \E n \in Names, now \in 1..MaxTime : Launch(n, now)
    \/ \E n \in Names : Remove(n)
    \/ Restart

SpecLaunch == InitLaunch /\ [][NextLaunch]_vars

\* The MAC of each name followed, worked out by hand from the arithmetic of
\* the code: "vm1" hashes to (118 * 31 + 109) * 31 + 49 = 116826 = 0x01c85a,
\* "vm2" to one more.
MACByHand(n) ==
    CASE n = "vm1" -> "52:54:00:01:c8:5a"
      [] n = "vm2" -> "52:54:00:01:c8:5b"

\* The characters of a text.
CharsOf(text) == [k \in 1..Len(text) |-> SubSeq(text, k, k)]

\* C16: every launch of a VM gets the MAC the name alone determines, the
\* prefix 52:54:00 followed by the three low bytes of the name's hash, which
\* is also the MAC the controller derives for the name; so any two launches
\* of the same name get the same MAC, whatever the time, the registry and
\* the allocation map were at each launch, and whether the VM was destroyed
\* or the driver restarted in between.
C16_MACByNameOnly ==
    \A i \in 1..Len(launches) :
        /\ launches[i].mac = MACByHand(launches[i].name)
        /\ CharsOf(launches[i].mac) = generateDeterministicMAC(launches[i].name)
        /\ \A j \in 1..Len(launches) :
              launches[i].name = launches[j].name => launches[i].mac = launches[j].mac

\* One name was launched twice, at different times: first beside another
\* registered VM and with another address allocated, then by a restarted
\* driver with an empty registry while the VMM process of the first launch
\* still ran.
C16_Witness ==
    \E i, j \in 1..Len(launches) :
        /\ i < j
        /\ launches[i].name = launches[j].name
        /\ launches[i].time # launches[j].time
        /\ launches[i].ips # {} /\ launches[j].ips = {}
        /\ launches[i].registry # {} /\ launches[j].registry = {}
        /\ Cardinality(vmm[launches[j].name]) = 2
        /\ launches[i].mac = launches[j].mac

\* C17: every TAP name CreateDomain generates has at most 15 characters.
C17_TapNameFits ==
    \A i \in 1..Len(launches) : Len(launches[i].tap) <= 15

----------------------------------------------------------------------------
(* Controller.Init (ensureIPTables) by concurrent instances: C18, C19 *)

\* The states the host firewall can be in before Init: each chain absent,
\* present with its jump rule, or present without it; iptables may be missing.
ChainStates == {"absent", "jump", "nojump"}
TablesOf(tooling, natState, filterState) ==
    [tooling |-> tooling,
     chains |-> (IF natState # "absent" THEN {NatChain.chain} ELSE {})
                \cup (IF filterState # "absent" THEN {FilterChain.chain} ELSE {}),
     jumps |-> [c \in ChainNames |->
                  IF c = NatChain.chain THEN (IF natState = "jump" THEN 1 ELSE 0)
                  ELSE (IF filterState = "jump" THEN 1 ELSE 0)],
     rules |-> <<>>]

InitFirewall ==
    /\ subnet = [lo |-> 4, hi |-> 7]
    /\ gatewayIP = subnet.lo + 1
    /\ ipPoolStart = 6 /\ ipPoolEnd = 7
    /\ networkConfig = ConfigOf(subnet, gatewayIP, ipPoolStart, ipPoolEnd)
    /\ started = "nil"
    /\ \E tooling \in BOOLEAN, natState \in ChainStates, filterState \in ChainStates :
          ipt = [now |-> TablesOf(tooling, natState, filterState),
                 first |-> TablesOf(tooling, natState, filterState)]
    /\ InitDriver

\* What ensureIPTablesChain returns after NewChain: created, unless NewChain
\* failed with exit status 1 because the chain existed.
ensureCreated(existed) == ~existed

ErrEnsureChain == "failed to create iptables chain"
ErrInsert == "iptables insert failed"

\* The instance goes on to the next chain, or returns nil after the last.
NextChain(r) ==
    IF r.k < Len(OwnedChains)
    THEN [r EXCEPT !.pc = "list", !.k = r.k + 1]
    ELSE [r EXCEPT !.pc = "done", !.ret = "nil"]

\* ensureIPTables returns err: an iptables command failed for another
\* reason than the chain existing.
InitFailed(r, err) == [r EXCEPT !.pc = "done", !.failed = TRUE, !.ret = err]

FirewallFrame ==
    UNCHANGED <<cfgVars, lateVars, networkConfig, started, derived, launches, built,
                allocatedIPs, allocVars, processes, hostVars, thrVars>>

\* Init: iptables.New(); without iptables Init returns nil at once.
InitBegin(i) ==
    /\ inst[i].pc = "idle"
    /\ inst' = [inst EXCEPT ![i] = IF ipt.now.tooling
                                   THEN [@ EXCEPT !.pc = "list"]
                                   ELSE [@ EXCEPT !.pc = "done", !.ret = "nil"]]
    /\ UNCHANGED ipt
    /\ FirewallFrame

\* ensureIPTablesChain: ListChains and the search for the chain in the
\* list.  When ListChains fails, ensureIPTables returns the wrapped error.
ListChains(i, fails) ==
    /\ inst[i].pc = "list"
    /\ inst' = [inst EXCEPT ![i] = IF fails
                                   THEN InitFailed(@, ErrEnsureChain)
                                   ELSE IF OwnedChains[@.k].chain \in ipt.now.chains
                                   THEN NextChain(@)
                                   ELSE [@ EXCEPT !.pc = "new"]]
    /\ UNCHANGED ipt
    /\ FirewallFrame

\* ensureIPTablesChain: NewChain and the check of its error.  Exit status 1
\* (the chain exists) is no error; any other failure creates nothing and
\* comes back as (true, err), which ensureIPTables returns wrapped.
NewChain(i, fails) ==
    /\ inst[i].pc = "new"
    /\ LET k == inst[i].k
           c == OwnedChains[k].chain
           existed == c \in ipt.now.chains
       IN IF fails
          THEN /\ UNCHANGED ipt
               /\ inst' = [inst EXCEPT ![i] =
                             InitFailed([@ EXCEPT !.tried[k] = TRUE], ErrEnsureChain)]
          ELSE /\ ipt' = [ipt EXCEPT !.now.chains = @ \cup {c}]
               /\ inst' = [inst EXCEPT ![i] =
                             IF ensureCreated(existed)
                             THEN [@ EXCEPT !.pc = "insert", !.created[k] = TRUE,
                                            !.tried[k] = TRUE]
                             ELSE NextChain([@ EXCEPT !.tried[k] = TRUE])]
    /\ FirewallFrame

\* ensureIPTables: Insert of the jump rule when the chain was created; when
\* Insert fails, ensureIPTables returns its error.
InsertJump(i, fails) ==
    /\ inst[i].pc = "insert"
    /\ IF fails
       THEN /\ UNCHANGED ipt
            /\ inst' = [inst EXCEPT ![i] = InitFailed(@, ErrInsert)]
       ELSE /\ ipt' = [ipt EXCEPT !.now.jumps[OwnedChains[inst[i].k].chain] = @ + 1]
            /\ inst' = [inst EXCEPT ![i] = NextChain(@)]
    /\ FirewallFrame

NextFirewall ==
    \E i \in Instances :
        \/ InitBegin(i)
        \/ \E fails \in BOOLEAN : ListChains(i, fails)
        \/ \E fails \in BOOLEAN : NewChain(i, fails)
        \/ \E fails \in BOOLEAN : InsertJump(i, fails)

SpecFirewall == InitFirewall /\ [][NextFirewall]_vars

ChainReady(c) == c \in ipt.now.chains /\ ipt.now.jumps[c] >= 1
AllDone == \A i \in Instances : inst[i].pc = "done"
Alone(i) == inst[i].pc = "done" /\ \A j \in Instances \ {i} : inst[j].pc = "idle"

\* C18: when one instance ran Init on a host with iptables and Init returned
\* nil, both chains exist and both have their jump rule, whatever state the
\* chains were in before.
C18_ChainsAndJumps ==
    \A i \in Instances :
        (Alone(i) /\ inst[i].ret = "nil" /\ ipt.now.tooling) =>
            \A c \in ChainNames : ChainReady(c)

\* No iptables command of any instance failed for another reason than the
\* chain existing.
NoCommandFailed == \A i \in Instances : ~inst[i].failed

\* C19: when all instances have run Init concurrently on a host with
\* iptables, each instance has returned nil (unless one of its iptables
\* commands failed for another reason than the chain existing), and when
\* an instance has returned nil each chain exists with exactly one jump
\* rule.
C19_RacesTolerated ==
    (AllDone /\ ipt.now.tooling) =>
        /\ \A i \in Instances : ~inst[i].failed => inst[i].ret = "nil"
        /\ (\E i \in Instances : inst[i].ret = "nil") =>
              \A c \in ChainNames : c \in ipt.now.chains /\ ipt.now.jumps[c] = 1

\* The chain was absent, or present with its jump rule, before any Init.
ConsistentBefore(c) == (c \in ipt.first.chains) = (ipt.first.jumps[c] >= 1)

\* The part of C19 that holds: each instance whose commands did not fail
\* has returned nil, and each chain that was absent or complete before
\* exists with exactly one jump rule.
RacesToleratedFromConsistent ==
    AllDone =>
        /\ \A i \in Instances : ~inst[i].failed => inst[i].ret = "nil"
        /\ (ipt.now.tooling /\ NoCommandFailed) =>
              \A c \in ChainNames :
                  ConsistentBefore(c) => (c \in ipt.now.chains /\ ipt.now.jumps[c] = 1)

----------------------------------------------------------------------------
(* Controller.VMStartedBuild: configureIPTables: C20 *)

\* The Append call that fails, counted over a call of configureIPTables
\* (0: none fails).
MaxFailAt == 4

\* The rules of one port, table and chain first, as configureIPTables builds them.
NatRule(hostIP, iface, value, ip, to) ==
    <<NatChain.table, NatChain.chain, "-d", hostIP, "-i", iface, "-p", "tcp", "-m", "tcp",
      "--dport", ToString(value), "-j", "DNAT", "--to-destination", ip \o ":" \o ToString(to)>>
FilterRule(ip, to) ==
    <<FilterChain.table, FilterChain.chain, "-d", ip, "-p", "tcp", "-m", "state",
      "--state", "NEW", "-m", "tcp", "--dport", ToString(to), "-j", "ACCEPT">>

ErrInterface == "failed to identify IP interface"
ErrAppend == "iptables append failed"

\* The for loop of configureIPTables over the port labels left, with acc =
\* [appended: the rules put into iptables, teardown: teardownRules,
\*  n: Append calls made].  res maps the labels that have a reserved port,
\* ifaces maps a host IP to its interface ("" when none has it), and the
\* Append call number failAt fails.
RECURSIVE portLoop(_, _, _, _, _, _)
portLoop(ports, res, ifaces, ip, failAt, acc) ==
    IF ports = <<>>
    THEN [appended |-> acc.appended, teardown |-> acc.teardown, err |-> "nil"]
    ELSE IF Head(ports) \notin DOMAIN res
    THEN portLoop(Tail(ports), res, ifaces, ip, failAt, acc)
    ELSE LET rp     == res[Head(ports)]
             iface  == ifaces[rp.HostIP]
             nat    == NatRule(rp.HostIP, iface, rp.Value, ip, rp.To)
             filter == FilterRule(ip, rp.To)
         IN IF iface = ""
            THEN [appended |-> acc.appended, teardown |-> <<>>, err |-> ErrInterface]
            ELSE IF acc.n + 1 = failAt
            THEN [appended |-> acc.appended, teardown |-> <<>>, err |-> ErrAppend]
            ELSE IF acc.n + 2 = failAt
            THEN [appended |-> Append(acc.appended, nat), teardown |-> <<>>, err |-> ErrAppend]
            ELSE portLoop(Tail(ports), res, ifaces, ip, failAt,
                          [appended |-> acc.appended \o <<nat, filter>>,
                           teardown |-> acc.teardown \o <<nat, filter>>,
                           n |-> acc.n + 2])

\* A runtime panic (nil pointer dereference, index out of range) in place of a return.
Panic == "panic"

\* Controller.configureIPTables: [appended, teardown, err].  cfg is the bridge
\* block of the interface; cfg.Ports on a nil block panics.
configureIPTables(tooling, cfg, res, ifaces, ip, failAt) ==
    IF ~tooling
    THEN [appended |-> <<>>, teardown |-> <<>>, err |-> "nil"]
    ELSE IF ~cfg.present
    THEN [appended |-> <<>>, teardown |-> <<>>, err |-> Panic]
    ELSE portLoop(cfg.Ports, res, ifaces, ip, failAt,
                  [appended |-> <<>>, teardown |-> <<>>, n |-> 0])

\* The requests followed: port labels, reserved ports, the host's interfaces.
PortLists == { <<>>, <<"http">>, <<"http", "ssh">>, <<"ssh", "http">>, <<"http", "http">> }
HostInterfaces == [x \in {"10.0.0.2", "10.0.0.9"} |-> IF x = "10.0.0.2" THEN "eth0" ELSE ""]
ReservedPorts ==
    { [l \in {"http", "ssh"} |->
          IF l = "http" THEN [HostIP |-> "10.0.0.2", Value |-> 8080, To |-> 80]
          ELSE [HostIP |-> "10.0.0.2", Value |-> 2222, To |-> 22]],
      [l \in {"http", "ssh"} |->
          IF l = "http" THEN [HostIP |-> "10.0.0.2", Value |-> 8080, To |-> 80]
          ELSE [HostIP |-> "10.0.0.9", Value |-> 2222, To |-> 22]],
      [l \in {"http"} |-> [HostIP |-> "10.0.0.2", Value |-> 8080, To |-> 80]] }

\* net.VMStartedBuildRequest.  A nil pointer is a record with present = FALSE.
NilBridge == [present |-> FALSE, Name |-> "", StaticIP |-> "", Ports |-> <<>>]
BridgeOf(name, static, ports) ==
    [present |-> TRUE, Name |-> name, StaticIP |-> static, Ports |-> ports]
NilBuildRequest ==
    [present |-> FALSE, NetConfig |-> [present |-> FALSE, ifaces |-> <<>>],
     Resources |-> [present |-> FALSE, Ports |-> <<>>], GuestIPs |-> <<>>,
     DomainName |-> ""]
BuildRequestOf(ifaces, ports, guestIPs) ==
    [present |-> TRUE, NetConfig |-> [present |-> TRUE, ifaces |-> ifaces],
     Resources |-> [present |-> TRUE, Ports |-> ports], GuestIPs |-> guestIPs,
     DomainName |-> "vm1"]
GuestIP == "192.168.254.15"
AllPorts == CHOOSE res \in ReservedPorts : DOMAIN res = {"http", "ssh"} /\ res["ssh"].HostIP = "10.0.0.2"
BuildRequests ==
    { BuildRequestOf(<<[Bridge |-> BridgeOf("br0", "", ports)]>>, res, <<GuestIP>>) :
         ports \in PortLists, res \in ReservedPorts }
    \cup { NilBuildRequest,
           [BuildRequestOf(<<>>, AllPorts, <<GuestIP>>) EXCEPT !.NetConfig.present = FALSE],
           [BuildRequestOf(<<>>, AllPorts, <<GuestIP>>) EXCEPT !.Resources.present = FALSE],
           BuildRequestOf(<<>>, AllPorts, <<GuestIP>>),
           BuildRequestOf(<<[Bridge |-> NilBridge]>>, AllPorts, <<GuestIP>>),
           BuildRequestOf(<<[Bridge |-> NilBridge]>>, AllPorts, <<>>),
           BuildRequestOf(<<[Bridge |-> BridgeOf("", "192.168.254.20", <<"http">>)]>>, AllPorts, <<>>),
           BuildRequestOf(<<[Bridge |-> BridgeOf("", "", <<"http">>)]>>, AllPorts, <<"">>),
           BuildRequestOf(<<[Bridge |-> BridgeOf("br9", "", <<"http">>)]>>, AllPorts, <<GuestIP>>) }
HostBridges == { {"br0"}, {} }

ErrNoRequest == "net controller: no request provided"
ErrBridgeMissing == "bridge interface does not exist"
ErrBridgeEmpty == "bridge name cannot be empty"
ErrNoVirtualizerIP == "virtualizer did not provide IP address"
ErrPortMapping == "failed to configure port mapping"

\* What a call of VMStartedBuild leaves: out is "response", "error" or Panic;
\* ip and teardown are the response's DriverNetwork.IP and IPTablesRules;
\* appended are the rules the call put into iptables.
BuildResult(out, err, ip, appended, teardown) ==
    [out |-> out, err |-> err, ip |-> ip, appended |-> appended, teardown |-> teardown]

\* Controller.VMStartedBuild.
vmStartedBuild(req, driverBridge, hostBridges, tooling, ifaces, failAt) ==
    IF ~req.present
    THEN BuildResult("error", ErrNoRequest, "", <<>>, <<>>)
    ELSE IF ~req.NetConfig.present \/ ~req.Resources.present
    THEN BuildResult("response", "nil", "", <<>>, <<>>)
    ELSE IF Len(req.NetConfig.ifaces) = 0
    THEN BuildResult("response", "nil", "", <<>>, <<>>)
    ELSE LET netInterface == req.NetConfig.ifaces[1]
             bridgeName == IF netInterface.Bridge.present /\ netInterface.Bridge.Name # ""
                           THEN netInterface.Bridge.Name
                           ELSE driverBridge
             fromGuest  == Len(req.GuestIPs) > 0 /\ req.GuestIPs[1] # ""
             fromStatic == netInterface.Bridge.present /\ netInterface.Bridge.StaticIP # ""
             ipAddr == IF fromGuest THEN req.GuestIPs[1] ELSE netInterface.Bridge.StaticIP
             r == configureIPTables(tooling, netInterface.Bridge, req.Resources.Ports,
                                    ifaces, ipAddr, failAt)
         IN IF bridgeName = ""
            THEN BuildResult("error", ErrBridgeEmpty, "", <<>>, <<>>)
            ELSE IF bridgeName \notin hostBridges
            THEN BuildResult("error", ErrBridgeMissing, "", <<>>, <<>>)
            ELSE IF ~fromGuest /\ ~fromStatic
            THEN BuildResult("error", ErrNoVirtualizerIP, "", <<>>, <<>>)
            ELSE IF r.err = Panic
            THEN BuildResult(Panic, Panic, "", r.appended, <<>>)
            ELSE IF r.err # "nil"
            THEN BuildResult("error", ErrPortMapping, "", r.appended, <<>>)
            ELSE BuildResult("response", "nil", ipAddr, r.appended, r.teardown)

InitPorts ==
    /\ subnet = [lo |-> 4, hi |-> 7]
    /\ gatewayIP = subnet.lo + 1
    /\ ipPoolStart = 6 /\ ipPoolEnd = 7
    /\ networkConfig = ConfigOf(subnet, gatewayIP, ipPoolStart, ipPoolEnd)
    /\ started = "nil"
    /\ \E tooling \in BOOLEAN :
          ipt = [now |-> TablesOf(tooling, "absent", "absent"),
                 first |-> TablesOf(tooling, "absent", "absent")]
    /\ InitDriver

PortsFrame ==
    UNCHANGED <<cfgVars, query, ctx, vfio, lease, networkConfig, started, derived, launches, inst,
                allocatedIPs, allocVars, processes, hostVars, thrVars>>

\* VMStartedBuild: the rules go into iptables, and the caller gets the
\* response with the teardown list, or an error and no list.  One call is
\* followed per behaviour.
VMStartedBuild(req, hostBridges, failAt) ==
    /\ built.fn = "none"
    /\ LET r == vmStartedBuild(req, networkConfig.Bridge, hostBridges, ipt.now.tooling,
                               HostInterfaces, failAt)
       IN /\ ipt' = [ipt EXCEPT !.now.rules = @ \o r.appended]
          /\ built' = [fn |-> "build", req |-> req, hostBridges |-> hostBridges,
                       failAt |-> failAt, before |-> ipt.now,
                       out |-> r.out, err |-> r.err, ip |-> r.ip,
                       appended |-> r.appended, teardown |-> r.teardown]
    /\ UNCHANGED down
    /\ PortsFrame

\* VMTerminatedTeardown calls followed per behaviour.
MaxTeardowns == 2

\* net.VMTerminatedTeardownRequest; a nil request or a nil TeardownSpec has
\* present = FALSE.
NilTeardownRequest == [present |-> FALSE, TeardownSpec |-> [present |-> FALSE, IPTablesRules |-> <<>>]]
NilTeardownSpec == [present |-> TRUE, TeardownSpec |-> [present |-> FALSE, IPTablesRules |-> <<>>]]
TeardownRequestOf(rules) ==
    [present |-> TRUE, TeardownSpec |-> [present |-> TRUE, IPTablesRules |-> rules]]

Reverse(seq) == [i \in 1..Len(seq) |-> seq[Len(seq) + 1 - i]]
Range(seq) == { seq[i] : i \in 1..Len(seq) }
\* iptables -D: the first rule equal to the given one leaves the chain.
RemoveFirst(seq, x) ==
    LET k == CHOOSE i \in 1..Len(seq) : seq[i] = x /\ \A j \in 1..(i - 1) : seq[j] # x
    IN SubSeq(seq, 1, k - 1) \o SubSeq(seq, k + 1, Len(seq))

\* A deletion that fails on a rule that is not there (iptables -D alone).
deleteStrict(rules, rule, fault) ==
    IF fault \/ rule \notin Range(rules)
    THEN [rules |-> rules, failed |-> TRUE]
    ELSE [rules |-> RemoveFirst(rules, rule), failed |-> FALSE]

\* IPTables.DeleteIfExists: Exists, then Delete if the rule is there; fault
\* is true when the iptables command fails.
DeleteIfExists(rules, rule, fault) ==
    IF fault
    THEN [rules |-> rules, failed |-> TRUE]
    ELSE IF rule \in Range(rules)
    THEN [rules |-> RemoveFirst(rules, rule), failed |-> FALSE]
    ELSE [rules |-> rules, failed |-> FALSE]

\* A loop that returns at the first failed deletion.
RECURSIVE teardownLoopHalting(_, _, _, _)
teardownLoopHalting(list, i, faults, acc) ==
    IF i > Len(list) \/ acc.errs # <<>>
    THEN acc
    ELSE IF Len(list[i]) < 2
    THEN [acc EXCEPT !.out = Panic]
    ELSE LET d == DeleteIfExists(acc.rules, list[i], i \in faults)
         IN teardownLoopHalting(list, i + 1, faults,
                [acc EXCEPT !.rules = d.rules,
                            !.attempted = Append(@, i),
                            !.errs = IF d.failed THEN Append(@, i) ELSE @])

\* The for loop of VMTerminatedTeardown from rule i on, with acc = [rules:
\* the rules in iptables, attempted: the rules DeleteIfExists was called on,
\* errs: mErr.Errors (by the rule's position), out].  iptablesRule[1] on a
\* rule of fewer than two elements panics.
RECURSIVE teardownLoop(_, _, _, _)
teardownLoop(list, i, faults, acc) ==
    IF i > Len(list)
    THEN acc
    ELSE IF Len(list[i]) < 2
    THEN [acc EXCEPT !.out = Panic]
    ELSE LET d == DeleteIfExists(acc.rules, list[i], i \in faults)
         IN teardownLoop(list, i + 1, faults,
                [acc EXCEPT !.rules = d.rules,
                            !.attempted = Append(@, i),
                            !.errs = IF d.failed THEN Append(@, i) ELSE @])

\* A teardown that walks its list without asking for iptables first.
vmTerminatedTeardownUnchecked(req, tooling, rules, faults) ==
    teardownLoop(req.TeardownSpec.IPTablesRules, 1, faults,
                 [rules |-> rules, attempted |-> <<>>, errs |-> <<>>, out |-> "response"])

\* Controller.VMTerminatedTeardown: [rules, attempted, errs, out]; out is
\* "response" (with the error mErr.ErrorOrNil(): nil iff errs is empty) or Panic.
vmTerminatedTeardown(req, tooling, rules, faults) ==
    LET skip == [rules |-> rules, attempted |-> <<>>, errs |-> <<>>, out |-> "response"]
    IN IF ~req.present \/ ~req.TeardownSpec.present
       THEN skip
       ELSE IF ~tooling
       THEN skip
       ELSE teardownLoop(req.TeardownSpec.IPTablesRules, 1, faults, skip)

\* The teardown requests followed: nil, no spec, the list VMStartedBuild
\* handed back in its order and reversed, and lists with a short rule.
TeardownRequests ==
    { NilTeardownRequest, NilTeardownSpec,
      TeardownRequestOf(<< <<NatChain.table>> >>), TeardownRequestOf(<< <<>> >>) }
    \cup (IF built.fn = "build" /\ built.out = "response"
          THEN { TeardownRequestOf(built.teardown), TeardownRequestOf(Reverse(built.teardown)) }
          ELSE {})

\* No call of VMTerminatedTeardown yet.
NoTeardown == [fn |-> "none"]

\* VMTerminatedTeardown, with the iptables command failing on the rules at
\* the positions faults.
VMTerminatedTeardown(req, faults) ==
    /\ down.calls < MaxTeardowns
    /\ LET r == vmTerminatedTeardown(req, ipt.now.tooling, ipt.now.rules, faults)
       IN /\ ipt' = [ipt EXCEPT !.now.rules = r.rules]
          /\ down' = [fn |-> "teardown", calls |-> down.calls + 1,
                      prev |-> IF down.fn = "none" THEN NoTeardown
                               ELSE [fn |-> "teardown", req |-> down.req, errs |-> down.errs,
                                     before |-> down.before],
                      req |-> req,
                      faults |-> faults, before |-> ipt.now,
                      out |-> r.out, attempted |-> r.attempted, errs |-> r.errs]
    /\ UNCHANGED built
    /\ PortsFrame

\* The Controller of the plugin: its Init has returned before requests are
\* served, and a VM is torn down after it was built.
TheController == 1
ControllerReady == inst[TheController].pc = "done" /\ inst[TheController].ret = "nil"

NextPorts ==
    \/ InitBegin(TheController)
    \/ \E fails \in BOOLEAN : ListChains(TheController, fails)
    \/ \E fails \in BOOLEAN : NewChain(TheController, fails)
    \/ \E fails \in BOOLEAN : InsertJump(TheController, fails)
    \/ /\ ControllerReady
       /\ \E req \in BuildRequests, hostBridges \in HostBridges, failAt \in 0..MaxFailAt :
             VMStartedBuild(req, hostBridges, failAt)
    \/ /\ ControllerReady /\ built.fn = "build"
       /\ \E req \in TeardownRequests :
             \E faults \in SUBSET (1..Len(req.TeardownSpec.IPTablesRules)) :
                VMTerminatedTeardown(req, faults)

SpecPorts == InitPorts /\ [][NextPorts]_vars

\* C20: the teardown list VMStartedBuild hands back is the sequence of rules
\* it appended to iptables: every appended rule, verbatim, in insertion
\* order, and nothing else.
C20_TeardownIsInserted ==
    built.fn = "build" => built.teardown = built.appended

\* The call of VMTerminatedTeardown a step makes, if it makes one.
IsTeardown == down'.calls = down.calls + 1
TeardownList(d) == d.req.TeardownSpec.IPTablesRules
\* The call went through its loop: a request with a teardown list, on a host
\* with iptables.
Walked(d) == d.fn = "teardown" /\ d.req.present /\ d.req.TeardownSpec.present /\ d.before.tooling
WellFormed(d) == \A i \in 1..Len(TeardownList(d)) : Len(TeardownList(d)[i]) >= 2

\* C21: teardown is idempotent and retryable: in every call of
\* VMTerminatedTeardown, a rule of the list that is already absent from
\* iptables produces no error unless the iptables command itself fails, and
\* a call that finds every rule of its list absent leaves the firewall as it
\* was, whatever the order of the list.
C21_Step ==
    (IsTeardown /\ Walked(down') /\ WellFormed(down')) =>
        /\ \A i \in 1..Len(TeardownList(down')) :
              (TeardownList(down')[i] \notin Range(ipt.now.rules) /\ i \notin down'.faults)
                 => i \notin Range(down'.errs)
        /\ (\A i \in 1..Len(TeardownList(down')) : TeardownList(down')[i] \notin Range(ipt.now.rules))
              => ipt' = ipt
C21_TeardownRetryable == [][C21_Step]_vars
\* A retry in the other order after a partial attempt: the first call removed
\* some rules and failed on others, the second finds rules absent and
\* returns no error.
C21_Witness ==
    /\ down.calls = 2 /\ Walked(down) /\ Walked(down.prev)
    /\ Len(TeardownList(down)) = 4
    /\ TeardownList(down) = Reverse(TeardownList(down.prev))
    /\ down.prev.errs # <<>> /\ Len(down.prev.errs) < 4
    /\ \E i \in 1..4 : TeardownList(down)[i] \notin Range(down.before.rules)
    /\ down.errs = <<>> /\ down.out = "response"
    /\ ipt.now.rules = <<>>

\* The positions 1..n that are in the set, in order.
RECURSIVE Ascending(_, _)
Ascending(n, set) ==
    IF n = 0 THEN <<>>
    ELSE IF n \in set THEN Append(Ascending(n - 1, set), n) ELSE Ascending(n - 1, set)

\* C22: VMTerminatedTeardown never short-circuits: on a list of rules (each
\* with its table and chain) it calls the deletion of every rule, in order,
\* also after earlier deletions failed, and the aggregate error holds exactly
\* one entry per failed deletion; it is nil iff no deletion failed.
C22_AllAttempted ==
    (Walked(down) /\ WellFormed(down)) =>
        /\ down.out = "response"
        /\ down.attempted = Ascending(Len(TeardownList(down)), 1..Len(TeardownList(down)))
        /\ down.errs = Ascending(Len(TeardownList(down)), down.faults)
        /\ (down.errs = <<>>) <=> (down.faults = {})
\* The first deletion failed and the later ones were still made; the
\* aggregate has two entries.
C22_Witness ==
    /\ Walked(down) /\ Len(TeardownList(down)) = 4
    /\ down.faults = {1, 3}
    /\ down.attempted = <<1, 2, 3, 4>>
    /\ down.errs = <<1, 3>>
    /\ Len(down.before.rules) = 4 /\ Len(ipt.now.rules) = 2

\* The call of VMStartedBuild a step makes, if it makes one.
IsBuild == built.fn = "none" /\ built'.fn = "build"
\* The call reached the port-forwarding setup: request, interface, bridge
\* and address were all there.
ReachedPorts(b) ==
    /\ b.req.present /\ b.req.NetConfig.present /\ b.req.Resources.present
    /\ Len(b.req.NetConfig.ifaces) > 0
    /\ b.err \notin {ErrBridgeEmpty, ErrBridgeMissing, ErrNoVirtualizerIP}

\* C23: on a host without firewall tooling, Init, the port-forwarding setup
\* of VMStartedBuild and VMTerminatedTeardown are no-ops: no step changes the
\* firewall, Init returns nil, VMTerminatedTeardown returns a response and no
\* error, and a VMStartedBuild that reaches the setup returns the VM's IP
\* with an empty teardown list.
C23_Step ==
    ~ipt.now.tooling =>
        /\ ipt' = ipt
        /\ (inst'[TheController].pc = "done" => inst'[TheController].ret = "nil")
        /\ IsTeardown => /\ down'.out = "response" /\ down'.errs = <<>>
                         /\ down'.attempted = <<>>
        /\ (IsBuild /\ ReachedPorts(built')) =>
              /\ built'.out = "response" /\ built'.err = "nil"
              /\ built'.ip # "" /\ built'.ip \in {GuestIP, "192.168.254.20"}
              /\ built'.teardown = <<>> /\ built'.appended = <<>>
C23_NoToolingNoOp == [][C23_Step]_vars
\* Without tooling: Init returned nil, a build with two ports returned the
\* address and no rules, and a teardown with a list returned.
C23_Witness ==
    /\ ~ipt.now.tooling
    /\ inst[TheController].ret = "nil"
    /\ built.fn = "build" /\ built.out = "response" /\ built.ip = GuestIP
    /\ built.req.NetConfig.ifaces[1].Bridge.Ports = <<"http", "ssh">>
    /\ built.teardown = <<>>
    /\ down.fn = "teardown" /\ down.req.present /\ down.req.TeardownSpec.present
    /\ Len(TeardownList(down)) = 1
    /\ ipt.now = ipt.first

\* C24: VMStartedBuild and VMTerminatedTeardown return a response or an
\* error for every request; neither ends in a panic.
C24_NeverPanics ==
    /\ built.fn = "build" => built.out \in {"response", "error"}
    /\ down.fn = "teardown" => down.out \in {"response", "error"}

----------------------------------------------------------------------------
(* Driver.GetDomain, GetNetworkInterfaces, GetInfo and monitorCtx *)

CHStateRunning == "running"
CHStateShutdown == "shutdown"
CHStateShutoff == "shutoff"
CHStateCrashed == "crashed"
CHStateUnknown == "unknown"

\* The state texts the control query may carry, and strings.ToLower on them.
CHStateTexts == {"Running", "Shutdown", "shutoff", "CRASHED", "Paused"}
ToLower(text) ==
    CASE text = "Running"  -> "running"
      [] text = "Shutdown" -> "shutdown"
      [] text = "Shutoff"  -> "shutoff"
      [] text = "CRASHED"  -> "crashed"
      [] text = "Created"  -> "created"
      [] text = "Paused"   -> "paused"
      [] text = "10DE"      -> "10de"
      [] text = "10DE:*"    -> "10de:*"
      [] text = "10DE:2204" -> "10de:2204"
      [] OTHER             -> text

mapCHState(chState) ==
    CASE ToLower(chState) = "running"  -> CHStateRunning
      [] ToLower(chState) = "shutdown" -> CHStateShutdown
      [] ToLower(chState) = "shutoff"  -> CHStateShutoff
      [] ToLower(chState) = "crashed"  -> CHStateCrashed
      [] OTHER                         -> CHStateUnknown

\* No domain.Info (GetDomain returns nil, nil).
NoInfo == ""

\* A GetDomain that takes a failed control query for a stopped VM.
getDomainNoProbe(exists, p, infoOk, chState, alive) ==
    IF ~exists THEN NoInfo
    ELSE IF ~infoOk THEN CHStateShutoff
    ELSE mapCHState(chState)

\* GetDomain after its registry lookup: the State of the domain.Info it
\* returns.  infoOk: getVMInfo returned no error, with the state text chState;
\* alive: signal 0 reached the process p.Pid.
getDomain(exists, p, infoOk, chState, alive) ==
    IF ~exists THEN NoInfo
    ELSE IF ~infoOk
    THEN IF p.Pid > 0 /\ alive THEN CHStateRunning ELSE CHStateShutoff
    ELSE mapCHState(chState)

\* GetNetworkInterfaces after its registry lookup: the error, and the Addrs
\* of the one interface it returns: the netip.Addr that proc.IP parses to,
\* none when proc.IP is empty or does not parse.
getNetworkInterfaces(exists, p) ==
    IF ~exists THEN [err |-> ErrNotFound, Addrs |-> <<>>]
    ELSE [err |-> Ok,
          Addrs |-> IF p.IP # "" /\ IsValid(ParseAddr(p.IP)) THEN <<ParseAddr(p.IP)>> ELSE <<>>]

\* d.mu.RLock() is granted while no goroutine holds the write lock.
RLockFree == mu = 0

QueryFrame ==
    UNCHANGED <<cfgVars, down, ctx, vfio, lease, auxVars, allocatedIPs, allocVars, processes,
                hostVars, thrVars>>

\* GetDomain(n) and GetNetworkInterfaces(n) from d.mu.RLock() to
\* d.mu.RUnlock(): the registry lookup.
QueryLookup(q, fn, n) ==
    /\ query[q].pc = "idle" /\ query[q].fn = "none"
    /\ RLockFree
    /\ query' = [query EXCEPT ![q] =
                   [pc |-> "flight", fn |-> fn, name |-> n,
                    exists |-> n \in DOMAIN processes,
                    proc |-> IF n \in DOMAIN processes THEN processes[n] ELSE NoProc]]
    /\ QueryFrame

\* GetDomain: getVMInfo(proc), the control query on the socket of the entry
\* the lookup copied, made with no lock held.  The socket path is made of
\* the VM name (workDir/api.sock), so the query is answered only while a VMM
\* process of that name runs, and may fail to be answered.
GetDomain_Info(q, infoOk, chState) ==
    /\ query[q].pc = "flight" /\ query[q].fn = "GetDomain"
    /\ query[q].exists
    /\ infoOk => (vmm[query[q].name] # {} /\ chState \in CHStateTexts)
    /\ ~infoOk => chState = ""
    /\ query' = [query EXCEPT ![q] =
                   [pc |-> "probe", fn |-> "GetDomain", name |-> query[q].name,
                    exists |-> query[q].exists, proc |-> query[q].proc,
                    infoOk |-> infoOk, chState |-> chState]]
    /\ QueryFrame

\* GetDomain from the result of getVMInfo (or from the lookup, when the VM
\* was not found) to its return.  Signal 0 goes to the pid of the copied
\* entry: it reaches the process only while that process runs.
GetDomain_Return(q) ==
    /\ query[q].fn = "GetDomain"
    /\ \/ query[q].pc = "probe"
       \/ query[q].pc = "flight" /\ ~query[q].exists
    /\ LET infoOk  == query[q].pc = "probe" /\ query[q].infoOk
           chState == IF query[q].pc = "probe" THEN query[q].chState ELSE ""
           alive   == query[q].proc.Pid \in vmm[query[q].name]
       IN query' = [query EXCEPT ![q] =
                      [pc |-> "idle", fn |-> "GetDomain", name |-> query[q].name,
                       exists |-> query[q].exists, proc |-> query[q].proc,
                       registered |-> query[q].name \in DOMAIN processes,
                       infoOk |-> infoOk, chState |-> chState, alive |-> alive,
                       State |-> getDomain(query[q].exists, query[q].proc, infoOk, chState, alive)]]
    /\ QueryFrame

\* GetNetworkInterfaces from the lookup's result to its return.
GetNetworkInterfaces_Return(q) ==
    /\ query[q].pc = "flight" /\ query[q].fn = "GetNetworkInterfaces"
    /\ query' = [query EXCEPT ![q] =
                   [pc |-> "idle", fn |-> "GetNetworkInterfaces", name |-> query[q].name,
                    exists |-> query[q].exists, proc |-> query[q].proc,
                    registered |-> query[q].name \in DOMAIN processes,
                    ifaces |-> getNetworkInterfaces(query[q].exists, query[q].proc)]]
    /\ QueryFrame

\* GetInfo: getCHVersion, before the lock is taken.
GetInfo_Version(q, version) ==
    /\ query[q].pc = "idle" /\ query[q].fn = "none"
    /\ query' = [query EXCEPT ![q] = [pc |-> "flight", fn |-> "GetInfo", version |-> version]]
    /\ QueryFrame

\* GetInfo from d.mu.RLock() to its return.
GetInfo_Return(q) ==
    /\ query[q].pc = "flight" /\ query[q].fn = "GetInfo"
    /\ RLockFree
    /\ query' = [query EXCEPT ![q] =
                   [pc |-> "idle", fn |-> "GetInfo", EmulatorVersion |-> query[q].version,
                    RunningDomains |-> Cardinality(DOMAIN processes)]]
    /\ QueryFrame

\* The driver's context is cancelled.
Cancel ==
    /\ ~ctx.cancelled
    /\ ctx' = [ctx EXCEPT !.cancelled = TRUE, !.busy = (mu # 0)]
    /\ UNCHANGED <<cfgVars, down, query, vfio, lease, auxVars, allocatedIPs, allocVars, processes,
                   hostVars, thrVars>>

\* cleanupProcess on every VM of the registry, in any order.
RECURSIVE cleanupAll(_, _)
cleanupAll(h, names) ==
    IF names = {} THEN h
    ELSE LET n == CHOOSE m \in names : TRUE
         IN cleanupAll(cleanupProcess(h, n, processes[n]), names \ {n})

\* A sweep that leaves the registered VMs alone.
sweepNone(h, names) == h

\* The loop of monitorCtx over d.processes.
sweep(h, names) == cleanupAll(h, names)

\* monitorCtx after <-ctx.Done(): d.mu.Lock().
MonitorCtx_Lock ==
    /\ ctx.cancelled /\ ~ctx.swept
    /\ mu # Monitor
    /\ LockFree(Monitor)
    /\ mu' = Monitor
    /\ UNCHANGED <<cfgVars, lateVars, auxVars, allocatedIPs, allocVars, processes, hostVars,
                   pc, call, proc, ret, torn>>

\* monitorCtx from the return of d.mu.Lock() to the deferred Unlock: the
\* loop over d.processes.
MonitorCtx ==
    /\ ctx.cancelled /\ ~ctx.swept
    /\ mu = Monitor
    /\ LET h == sweep(Host, DOMAIN processes)
       IN /\ taps' = h.taps /\ virtiofsd' = h.virtiofsd /\ vmm' = h.vmm
    /\ ctx' = [ctx EXCEPT !.swept = TRUE, !.names = DOMAIN processes]
    /\ mu' = 0
    /\ UNCHANGED <<cfgVars, down, query, vfio, lease, auxVars, allocatedIPs, allocVars, processes,
                   workDirs, pc, call, proc, ret, torn>>

\* A started driver with the pool 6..7.
InitQuery ==
    /\ subnet = [lo |-> 4, hi |-> 7]
    /\ gatewayIP = subnet.lo + 1
    /\ ipPoolStart = 6 /\ ipPoolEnd = 7
    /\ Started
    /\ InitDriver

\* The GetDomain call that returned on a VM its lookup found.
GotDomain(r) == r.pc = "idle" /\ r.fn = "GetDomain" /\ r.exists

\* C25: GetDomain on a registered VM reports shutoff after a failed control
\* query only if the liveness probe failed or the VM has no process id; it
\* reports running if the query failed and the process is alive; and if the
\* query succeeded it reports the VMM state mapped (running, shutdown,
\* shutoff, crashed; anything else unknown).
C25_StoppedOnlyIfDead ==
    \A q \in Queries :
       GotDomain(query[q]) =>
          LET r == query[q]
              known == {"running", "shutdown", "shutoff", "crashed"}
          IN /\ (~r.infoOk /\ r.State = "shutoff") => (~r.alive \/ r.proc.Pid <= 0)
             /\ (~r.infoOk /\ r.alive /\ r.proc.Pid > 0) => r.State = "running"
             /\ r.infoOk => r.State = IF ToLower(r.chState) \in known
                                      THEN ToLower(r.chState) ELSE "unknown"
\* The control query failed on a VM whose process is alive: running.
C25_Witness ==
    \E q \in Queries :
       /\ GotDomain(query[q])
       /\ ~query[q].infoOk /\ query[q].alive /\ query[q].proc.Pid > 0
       /\ query[q].State = "running"

\* C26: while a read-only query is between its start and its return, no
\* CreateDomain or DestroyDomain step executes.
C26_Step ==
    (\E q \in Queries : query[q].pc \in {"flight", "probe"}) => UNCHANGED <<mu, pc, ret, processes>>
C26_QueriesExcludeWriters == [][C26_Step]_vars

\* C27: once the context is cancelled the sweep eventually runs, with the
\* lock in the hands of monitorCtx and no lifecycle call inside its critical
\* section, and it leaves no VMM process, helper or TAP interface of any VM
\* that is registered at that moment.
C27_SweepStep ==
    (~ctx.swept /\ ctx'.swept) =>
        /\ mu = Monitor /\ \A t \in Threads : pc[t] = "idle"
        /\ ctx'.names = DOMAIN processes
        /\ \A n \in DOMAIN processes : vmm'[n] = {} /\ n \notin taps' /\ n \notin virtiofsd'
C27_SweepStopsAll ==
    /\ (ctx.cancelled ~> ctx.swept)
    /\ [][C27_SweepStep]_vars
\* The context was cancelled during a creation, and the sweep that followed
\* found both VMs registered and stopped them.
C27_Witness ==
    /\ ctx.swept /\ ctx.busy
    /\ ctx.names = Names
    /\ DOMAIN processes = Names
    /\ \A n \in Names : vmm[n] = {} /\ n \notin taps /\ n \notin virtiofsd

----------------------------------------------------------------------------
(* VFIOManager: ValidateDevices, CheckIOMMUGroups, BindDevices,           *)
(* GetVFIOGroupPaths, UnbindDevices, over the host's sysfs                 *)

\* VFIO calls followed per behaviour.
MaxVFIOCalls == 2

VFIODriver == "vfio-pci"
BindPath == "/sys/bus/pci/drivers/vfio-pci/bind"
UnbindPath == "/sys/bus/pci/drivers/vfio-pci/unbind"
GroupPath(g) == "/dev/vfio/" \o g

\* The characters of a PCI address.
HexDigitChars ==
    {"0", "1", "2", "3", "4", "5", "6", "7", "8", "9",
     "a", "b", "c", "d", "e", "f", "A", "B", "C", "D", "E", "F"}
FunctionChars == {"0", "1", "2", "3", "4", "5", "6", "7"}

\* Character i of a text.
CharAt(text, i) == SubSeq(text, i, i)

\* isValidPCIAddress: four hex digits, ":", two hex digits, ":", two hex
\* digits, ".", and a function digit 0..7, with nothing before or after.
isValidPCIAddress(addr) ==
    /\ Len(addr) = 12
    /\ \A i \in {1, 2, 3, 4, 6, 7, 9, 10} : CharAt(addr, i) \in HexDigitChars
    /\ CharAt(addr, 5) = ":" /\ CharAt(addr, 8) = ":" /\ CharAt(addr, 11) = "."
    /\ CharAt(addr, 12) \in FunctionChars

\* sysfs of a host: per device its vendor and device id, the driver it is
\* bound to ("" for none) and its IOMMU group ("" for no group link); and the
\* groups that have a group device under /dev/vfio.
Device(vendor, device, driver, group) ==
    [vendor |-> vendor, device |-> device, driver |-> driver, group |-> group]
SysfsHosts ==
    { [devs |-> [a \in {"0000:01:00.0", "0000:01:00.1", "0000:02:00.0"} |->
                   CASE a = "0000:01:00.0" -> Device("10de", "2204", "nvidia", "42")
                     [] a = "0000:01:00.1" -> Device("10de", "2205", "nvidia", "42")
                     [] OTHER              -> Device("8086", "0d26", "ixgbe", "43")],
       groupDevs |-> {"42", "43"}],
      [devs |-> [a \in {"0000:01:00.0", "0000:01:00.1", "0000:02:00.0"} |->
                   CASE a = "0000:01:00.0" -> Device("10de", "2204", VFIODriver, "42")
                     [] a = "0000:01:00.1" -> Device("10de", "2205", "nvidia", "42")
                     [] OTHER              -> Device("8086", "0d26", VFIODriver, "43")],
       groupDevs |-> {"42"}],
      [devs |-> [a \in {"0000:01:00.0", "0000:02:00.0"} |->
                   CASE a = "0000:01:00.0" -> Device("10de", "2204", "nvidia", "")
                     [] OTHER              -> Device("8086", "0d26", "", "43")],
       groupDevs |-> {"43"}] }

ErrInvalidPCI == "invalid PCI address format"
ErrPCINotFound == "PCI device not found"
ErrNotAllowed == "not in allowlist"
ErrNoIOMMUGroup == "has no IOMMU group"
ErrNoGroupDevice == "VFIO group device not found"

\* GetDeviceInfo: the error for an address sysfs has no device for.
DeviceError(devs, addr) ==
    IF ~isValidPCIAddress(addr) THEN ErrInvalidPCI
    ELSE IF addr \notin DOMAIN devs THEN ErrPCINotFound
    ELSE Ok

\* A matcher that lets every device through an empty allowlist.
matchesAllowlistOpen(vendor, device, allowlist) ==
    \/ allowlist = <<>>
    \/ \E i \in 1..Len(allowlist) :
          \/ ToLower(allowlist[i]) = ToLower(vendor) \o ":" \o ToLower(device)
          \/ ToLower(allowlist[i]) = ToLower(vendor) \o ":*"

\* matchesAllowlist: some entry is vendor:device or vendor:*, compared in
\* lower case.
matchesAllowlist(vendor, device, allowlist) ==
    \E i \in 1..Len(allowlist) :
       \/ ToLower(allowlist[i]) = ToLower(vendor) \o ":" \o ToLower(device)
       \/ ToLower(allowlist[i]) = ToLower(vendor) \o ":*"

\* ValidateDevices from device i on: the first error, or Ok.
RECURSIVE validateDevices(_, _, _, _)
validateDevices(devs, devices, allowlist, i) ==
    IF i > Len(devices) THEN Ok
    ELSE IF DeviceError(devs, devices[i]) # Ok THEN DeviceError(devs, devices[i])
    ELSE IF Len(allowlist) > 0
            /\ ~matchesAllowlist(devs[devices[i]].vendor, devs[devices[i]].device, allowlist)
    THEN ErrNotAllowed
    ELSE validateDevices(devs, devices, allowlist, i + 1)

\* A CheckIOMMUGroups that keeps one record per device.
RECURSIVE checkIOMMUGroupsPerDevice(_, _, _, _)
checkIOMMUGroupsPerDevice(devs, devices, i, groups) ==
    IF i > Len(devices) THEN [err |-> Ok, groups |-> groups]
    ELSE IF DeviceError(devs, devices[i]) # Ok
    THEN [err |-> DeviceError(devs, devices[i]), groups |-> <<>>]
    ELSE IF devs[devices[i]].group = ""
    THEN [err |-> ErrNoIOMMUGroup, groups |-> <<>>]
    ELSE checkIOMMUGroupsPerDevice(devs, devices, i + 1,
             Append(groups, [ID |-> devs[devices[i]].group, Devices |-> <<devices[i]>>]))

\* CheckIOMMUGroups from device i on: the group records so far, in the order
\* the groups were met, each with its devices.
RECURSIVE checkIOMMUGroups(_, _, _, _)
checkIOMMUGroups(devs, devices, i, groups) ==
    IF i > Len(devices) THEN [err |-> Ok, groups |-> groups]
    ELSE IF DeviceError(devs, devices[i]) # Ok
    THEN [err |-> DeviceError(devs, devices[i]), groups |-> <<>>]
    ELSE IF devs[devices[i]].group = ""
    THEN [err |-> ErrNoIOMMUGroup, groups |-> <<>>]
    ELSE LET g == devs[devices[i]].group
             known == \E k \in 1..Len(groups) : groups[k].ID = g
         IN checkIOMMUGroups(devs, devices, i + 1,
               IF known
               THEN [k \in 1..Len(groups) |->
                       IF groups[k].ID = g
                       THEN [groups[k] EXCEPT !.Devices = Append(@, devices[i])]
                       ELSE groups[k]]
               ELSE Append(groups, [ID |-> g, Devices |-> <<devices[i]>>]))

\* GetVFIOGroupPaths from device i on: the group device paths so far, each
\* once.
RECURSIVE getVFIOGroupPaths(_, _, _, _, _)
getVFIOGroupPaths(devs, groupDevs, devices, i, paths) ==
    IF i > Len(devices) THEN [err |-> Ok, paths |-> paths]
    ELSE IF DeviceError(devs, devices[i]) # Ok
    THEN [err |-> DeviceError(devs, devices[i]), paths |-> <<>>]
    ELSE IF devs[devices[i]].group = ""
    THEN [err |-> ErrNoIOMMUGroup, paths |-> <<>>]
    ELSE IF devs[devices[i]].group \notin groupDevs
    THEN [err |-> ErrNoGroupDevice, paths |-> <<>>]
    ELSE LET path == GroupPath(devs[devices[i]].group)
         IN getVFIOGroupPaths(devs, groupDevs, devices, i + 1,
               IF path \in Range(paths) THEN paths ELSE Append(paths, path))

\* A BindDevices that writes every device to the bind path.
RECURSIVE bindDevicesAll(_, _, _, _)
bindDevicesAll(devs, devices, i, writes) ==
    IF i > Len(devices) THEN [err |-> Ok, writes |-> writes]
    ELSE IF DeviceError(devs, devices[i]) # Ok
    THEN [err |-> DeviceError(devs, devices[i]), writes |-> writes]
    ELSE bindDevicesAll(devs, devices, i + 1,
                        Append(writes, [path |-> BindPath, data |-> devices[i]]))

\* BindDevices from device i on: the writes made.
RECURSIVE bindDevices(_, _, _, _)
bindDevices(devs, devices, i, writes) ==
    IF i > Len(devices) THEN [err |-> Ok, writes |-> writes]
    ELSE IF DeviceError(devs, devices[i]) # Ok
    THEN [err |-> DeviceError(devs, devices[i]), writes |-> writes]
    ELSE bindDevices(devs, devices, i + 1,
                     IF devs[devices[i]].driver = VFIODriver THEN writes
                     ELSE Append(writes, [path |-> BindPath, data |-> devices[i]]))

\* UnbindDevices from device i on: the writes made.
RECURSIVE unbindDevices(_, _, _, _)
unbindDevices(devs, devices, i, writes) ==
    IF i > Len(devices) THEN [err |-> Ok, writes |-> writes]
    ELSE IF DeviceError(devs, devices[i]) # Ok
    THEN [err |-> DeviceError(devs, devices[i]), writes |-> writes]
    ELSE unbindDevices(devs, devices, i + 1,
                       IF devs[devices[i]].driver # VFIODriver THEN writes
                       ELSE Append(writes, [path |-> UnbindPath, data |-> devices[i]]))

\* The kernel acting on the writes: a device written to the bind path is
\* bound to the passthrough driver, one written to the unbind path has no
\* driver.
RECURSIVE kernelBinds(_, _)
kernelBinds(devs, writes) ==
    IF writes = <<>> THEN devs
    ELSE kernelBinds([devs EXCEPT ![Head(writes).data].driver =
                         IF Head(writes).path = BindPath THEN VFIODriver ELSE ""],
                     Tail(writes))

\* The requests followed.
DeviceLists ==
    { <<>>, <<"0000:01:00.0">>, <<"0000:01:00.0", "0000:01:00.1">>,
      <<"0000:01:00.0", "0000:02:00.0">>, <<"0000:02:00.0", "0000:01:00.0">>,
      <<"0000:03:00.0">>, <<"invalid">>, <<"0000:0A:00.1">>, <<"0000:01:00.8">> }
Allowlists ==
    { <<>>, <<"10de:*">>, <<"10DE:*">>, <<"10de:2204">>, <<"8086:*", "10de:2205">> }
VendorTexts == {"10de", "10DE", "8086"}
DeviceTexts == {"2204", "0d26"}

InitVFIO ==
    /\ subnet = [lo |-> 4, hi |-> 7]
    /\ gatewayIP = subnet.lo + 1
    /\ ipPoolStart = 6 /\ ipPoolEnd = 7
    /\ Started
    /\ allocatedIPs = {} /\ allocLog = <<>> /\ allocBefore = {}
    /\ allocResult = [ip |-> "", err |-> NoErr]
    /\ released = [ip |-> "", was |-> FALSE]
    /\ processes = <<>>
    /\ workDirs = {} /\ taps = {} /\ virtiofsd = {}
    /\ vmm = [n \in Names |-> {}]
    /\ mu = 0
    /\ pc = [t \in Threads |-> "idle"]
    /\ call = [t \in Threads |-> NoCall]
    /\ proc = [t \in Threads |-> NoProc]
    /\ ret = NoRet
    /\ torn = [n \in Names |-> "none"]
    /\ derived = [fn |-> "none"]
    /\ launches = <<>>
    /\ inst = [i \in Instances |-> IdleInstance]
    /\ built = [fn |-> "none"]
    /\ down = [fn |-> "none", calls |-> 0]
    /\ query = [q \in Queries |-> IdleQuery]
    /\ ctx = NoCancel
    /\ lease = NoLeases
    /\ \E host \in SysfsHosts :
          vfio = [NoDevices EXCEPT !.devs = host.devs, !.groupDevs = host.groupDevs]

VFIOFrame ==
    UNCHANGED <<cfgVars, down, query, ctx, lease, auxVars, allocatedIPs, allocVars, processes,
                hostVars, thrVars>>

MatchesAllowlist(vendor, device, allowlist) ==
    /\ vfio.calls < MaxVFIOCalls
    /\ vfio' = [vfio EXCEPT
                  !.calls = @ + 1,
                  !.last = [fn |-> "matchesAllowlist", vendor |-> vendor, device |-> device,
                            allowlist |-> allowlist, devs |-> vfio.devs,
                            ok |-> matchesAllowlist(vendor, device, allowlist)]]
    /\ VFIOFrame

ValidateDevices(devices, allowlist) ==
    /\ vfio.calls < MaxVFIOCalls
    /\ vfio' = [vfio EXCEPT
                  !.calls = @ + 1,
                  !.last = [fn |-> "ValidateDevices", devices |-> devices,
                            allowlist |-> allowlist, devs |-> vfio.devs,
                            err |-> validateDevices(vfio.devs, devices, allowlist, 1)]]
    /\ VFIOFrame

CheckIOMMUGroups(devices) ==
    /\ vfio.calls < MaxVFIOCalls
    /\ vfio' = [vfio EXCEPT
                  !.calls = @ + 1,
                  !.last = [fn |-> "CheckIOMMUGroups", devices |-> devices, devs |-> vfio.devs,
                            groupDevs |-> vfio.groupDevs,
                            err |-> checkIOMMUGroups(vfio.devs, devices, 1, <<>>).err,
                            groups |-> checkIOMMUGroups(vfio.devs, devices, 1, <<>>).groups]]
    /\ VFIOFrame

GetVFIOGroupPaths(devices) ==
    /\ vfio.calls < MaxVFIOCalls
    /\ vfio' = [vfio EXCEPT
                  !.calls = @ + 1,
                  !.last = [fn |-> "GetVFIOGroupPaths", devices |-> devices, devs |-> vfio.devs,
                            groupDevs |-> vfio.groupDevs,
                            err |-> getVFIOGroupPaths(vfio.devs, vfio.groupDevs, devices, 1, <<>>).err,
                            paths |-> getVFIOGroupPaths(vfio.devs, vfio.groupDevs, devices, 1, <<>>).paths]]
    /\ VFIOFrame

BindDevices(devices) ==
    /\ vfio.calls < MaxVFIOCalls
    /\ vfio' = [vfio EXCEPT
                  !.calls = @ + 1,
                  !.writes = @ \o bindDevices(vfio.devs, devices, 1, <<>>).writes,
                  !.devs = kernelBinds(@, bindDevices(vfio.devs, devices, 1, <<>>).writes),
                  !.last = [fn |-> "BindDevices", devices |-> devices, devs |-> vfio.devs,
                            err |-> bindDevices(vfio.devs, devices, 1, <<>>).err,
                            writes |-> bindDevices(vfio.devs, devices, 1, <<>>).writes]]
    /\ VFIOFrame

UnbindDevices(devices) ==
    /\ vfio.calls < MaxVFIOCalls
    /\ vfio' = [vfio EXCEPT
                  !.calls = @ + 1,
                  !.writes = @ \o unbindDevices(vfio.devs, devices, 1, <<>>).writes,
                  !.devs = kernelBinds(@, unbindDevices(vfio.devs, devices, 1, <<>>).writes),
                  !.last = [fn |-> "UnbindDevices", devices |-> devices, devs |-> vfio.devs,
                            err |-> unbindDevices(vfio.devs, devices, 1, <<>>).err,
                            writes |-> unbindDevices(vfio.devs, devices, 1, <<>>).writes]]
    /\ VFIOFrame

NextVFIO ==
    \/ \E vendor \in VendorTexts, device \in DeviceTexts, allowlist \in Allowlists :
          MatchesAllowlist(vendor, device, allowlist)
    \/ \E devices \in DeviceLists, allowlist \in Allowlists : ValidateDevices(devices, allowlist)
    \/ \E devices \in DeviceLists : CheckIOMMUGroups(devices)
    \/ \E devices \in DeviceLists : GetVFIOGroupPaths(devices)
    \/ \E devices \in DeviceLists : BindDevices(devices)
    \/ \E devices \in DeviceLists : UnbindDevices(devices)

SpecVFIO == InitVFIO /\ [][NextVFIO]_vars

\* Some entry of the allowlist is vendor:device or vendor:*, whatever the case.
EntryFor(vendor, device, allowlist) ==
    \E e \in Range(allowlist) :
       ToLower(e) \in {ToLower(vendor) \o ":" \o ToLower(device), ToLower(vendor) \o ":*"}
VFIOCalled(fn) == vfio.last.fn = fn
AllPresent(r) == \A i \in 1..Len(r.devices) : DeviceError(r.devs, r.devices[i]) = Ok

\* C28 as first stated: a device is permitted iff the allowlist is empty or
\* some entry is vendor:device or vendor:*, case-insensitively, and the
\* matcher itself returns true for every device on an empty allowlist.
C28_MatcherOpenOnEmpty ==
    VFIOCalled("matchesAllowlist") =>
       (vfio.last.ok <=>
           (vfio.last.allowlist = <<>>
            \/ EntryFor(vfio.last.vendor, vfio.last.device, vfio.last.allowlist)))

\* C28: ValidateDevices permits a device iff the allowlist is empty or some
\* entry is vendor:device or vendor:*, case-insensitively; the matcher
\* returns true iff some entry matches, so it returns false on an empty
\* allowlist, which ValidateDevices never hands to it.
C28_AllowlistMatching ==
    /\ VFIOCalled("matchesAllowlist") =>
          (vfio.last.ok <=> EntryFor(vfio.last.vendor, vfio.last.device, vfio.last.allowlist))
    /\ (VFIOCalled("ValidateDevices") /\ AllPresent(vfio.last)) =>
          (vfio.last.err = Ok <=>
              \/ vfio.last.allowlist = <<>>
              \/ \A i \in 1..Len(vfio.last.devices) :
                    EntryFor(vfio.last.devs[vfio.last.devices[i]].vendor,
                             vfio.last.devs[vfio.last.devices[i]].device, vfio.last.allowlist))
    /\ (VFIOCalled("ValidateDevices") /\ ~AllPresent(vfio.last)) =>
          vfio.last.err \in {ErrInvalidPCI, ErrPCINotFound, ErrNotAllowed}
\* An upper-case vendor matched a lower-case wildcard entry.
C28_Witness ==
    /\ VFIOCalled("matchesAllowlist")
    /\ vfio.last.vendor = "10DE" /\ vfio.last.allowlist = <<"10de:*">>
    /\ vfio.last.ok

\* The IOMMU groups of the devices of a call.
GroupsOf(r) == { r.devs[r.devices[i]].group : i \in 1..Len(r.devices) }

\* C29: CheckIOMMUGroups returns exactly one record per distinct IOMMU
\* group of the devices, GetVFIOGroupPaths exactly one path per distinct
\* group; a device with no group link fails either call, and a group whose
\* group device is missing fails GetVFIOGroupPaths.
C29_GroupsDeduplicated ==
    /\ (VFIOCalled("CheckIOMMUGroups") /\ AllPresent(vfio.last)) =>
          LET r == vfio.last
          IN IF "" \in GroupsOf(r)
             THEN r.err # Ok
             ELSE /\ r.err = Ok
                  /\ Len(r.groups) = Cardinality(GroupsOf(r))
                  /\ { r.groups[k].ID : k \in 1..Len(r.groups) } = GroupsOf(r)
                  /\ \A i \in 1..Len(r.devices) : \E k \in 1..Len(r.groups) :
                        /\ r.groups[k].ID = r.devs[r.devices[i]].group
                        /\ r.devices[i] \in Range(r.groups[k].Devices)
    /\ (VFIOCalled("GetVFIOGroupPaths") /\ AllPresent(vfio.last)) =>
          LET r == vfio.last
          IN IF "" \in GroupsOf(r) \/ ~(GroupsOf(r) \subseteq r.groupDevs)
             THEN r.err # Ok
             ELSE /\ r.err = Ok
                  /\ Len(r.paths) = Cardinality(GroupsOf(r))
                  /\ Range(r.paths) = { GroupPath(g) : g \in GroupsOf(r) }
\* Two devices of group 42 resolved to the one path /dev/vfio/42.
C29_Witness ==
    /\ VFIOCalled("GetVFIOGroupPaths")
    /\ vfio.last.devices = <<"0000:01:00.0", "0000:01:00.1">>
    /\ vfio.last.err = Ok
    /\ vfio.last.paths = <<"/dev/vfio/42">>

\* The devices of a call that were (or were not) bound to the passthrough
\* driver when it was made, in the order of the list.
RECURSIVE BoundOnes(_, _, _)
BoundOnes(r, i, bound) ==
    IF i > Len(r.devices) THEN <<>>
    ELSE IF (r.devs[r.devices[i]].driver = VFIODriver) = bound
    THEN <<r.devices[i]>> \o BoundOnes(r, i + 1, bound)
    ELSE BoundOnes(r, i + 1, bound)

\* C30: BindDevices writes to the bind path the address of each device that
\* is not bound to the passthrough driver, and nothing for the others;
\* UnbindDevices writes to the unbind path the address of each device that
\* is bound to it, and nothing for the others; neither returns an error for
\* the devices it skips, and both return nil without a write on an empty list.
C30_BindOnlyUnbound ==
    /\ (VFIOCalled("BindDevices") /\ AllPresent(vfio.last)) =>
          /\ vfio.last.err = Ok
          /\ vfio.last.writes =
                [k \in 1..Len(BoundOnes(vfio.last, 1, FALSE)) |->
                    [path |-> BindPath, data |-> BoundOnes(vfio.last, 1, FALSE)[k]]]
    /\ (VFIOCalled("UnbindDevices") /\ AllPresent(vfio.last)) =>
          /\ vfio.last.err = Ok
          /\ vfio.last.writes =
                [k \in 1..Len(BoundOnes(vfio.last, 1, TRUE)) |->
                    [path |-> UnbindPath, data |-> BoundOnes(vfio.last, 1, TRUE)[k]]]
\* One device of the list was bound already and one was not: a single write.
C30_Witness ==
    /\ VFIOCalled("BindDevices")
    /\ vfio.last.devices = <<"0000:01:00.0", "0000:01:00.1">>
    /\ vfio.last.devs["0000:01:00.0"].driver = VFIODriver
    /\ vfio.last.err = Ok
    /\ vfio.last.writes = << [path |-> BindPath, data |-> "0000:01:00.1"] >>

\* --------------------------------------------------------------------------
\* The environment hand-off file: envFileFromMap and upsertFile.
\* Texts are sequences of bytes, so that sort.Strings orders them as Go does
\* and base64 encodes them as the standard encoding does.
\* --------------------------------------------------------------------------

envFilePath == "/etc/profile.d/virt.sh"
envFilePerms == "777"

ExportText == <<101, 120, 112, 111, 114, 116, 32>>    \* "export "
EqualsByte == 61                                       \* "="
NewlineByte == 10                                      \* "\n"
PadByte == 61                                          \* "="

\* a < b for Go strings: byte-wise lexicographic order.
RECURSIVE StringLess(_, _)
StringLess(a, b) ==
    IF b = <<>> THEN FALSE
    ELSE IF a = <<>> THEN TRUE
    ELSE IF a[1] # b[1] THEN a[1] < b[1]
    ELSE StringLess(Tail(a), Tail(b))

\* sort.Strings(keys), by insertion.
RECURSIVE InsertString(_, _)
InsertString(sorted, k) ==
    IF sorted = <<>> THEN <<k>>
    ELSE IF StringLess(k, sorted[1]) THEN <<k>> \o sorted
    ELSE <<sorted[1]>> \o InsertString(Tail(sorted), k)
RECURSIVE sortStrings(_)
sortStrings(keys) ==
    IF keys = <<>> THEN <<>>
    ELSE InsertString(sortStrings(Tail(keys)), keys[1])

\* fmt.Sprintf("export %s=%s", k, env[k]) for each key, joined with "\n".
RECURSIVE exportLines(_, _)
exportLines(env, keys) ==
    IF keys = <<>> THEN <<>>
    ELSE ExportText \o keys[1] \o <<EqualsByte>> \o env[keys[1]]
         \o (IF Len(keys) > 1 THEN <<NewlineByte>> ELSE <<>>)
         \o exportLines(env, Tail(keys))

\* The character of the standard base64 alphabet for a 6-bit value.
B64Char(v) ==
    IF v < 26 THEN 65 + v
    ELSE IF v < 52 THEN 97 + (v - 26)
    ELSE IF v < 62 THEN 48 + (v - 52)
    ELSE IF v = 62 THEN 43
    ELSE 47

\* base64.StdEncoding.EncodeToString
RECURSIVE base64Encode(_)
base64Encode(b) ==
    IF b = <<>> THEN <<>>
    ELSE IF Len(b) = 1 THEN
       LET n == b[1] * 65536
       IN << B64Char(n \div 262144), B64Char((n \div 4096) % 64), PadByte, PadByte >>
    ELSE IF Len(b) = 2 THEN
       LET n == b[1] * 65536 + b[2] * 256
       IN << B64Char(n \div 262144), B64Char((n \div 4096) % 64),
             B64Char((n \div 64) % 64), PadByte >>
    ELSE
       LET n == b[1] * 65536 + b[2] * 256 + b[3]
       IN << B64Char(n \div 262144), B64Char((n \div 4096) % 64),
             B64Char((n \div 64) % 64), B64Char(n % 64) >>
          \o base64Encode(SubSeq(b, 4, Len(b)))

NoFile == [Path |-> "", Permissions |-> "", Encoding |-> "", Content |-> <<>>]

\* envFileFromMap(env), with the keys met in the order the map's iteration
\* gave them: [file, ok].
envFileFromMap(env, order) ==
    IF Len(order) = 0 THEN [file |-> NoFile, ok |-> FALSE]
    ELSE [file |-> [Path |-> envFilePath, Permissions |-> envFilePerms, Encoding |-> "b64",
                    Content |-> base64Encode(exportLines(env, sortStrings(order)))],
          ok |-> TRUE]

\* upsertFile(files, file): the first entry with the file's path is
\* replaced, or the file is appended.
upsertFile(files, file) ==
    IF \E i \in 1..Len(files) : files[i].Path = file.Path
    THEN LET first == CHOOSE i \in 1..Len(files) :
                         /\ files[i].Path = file.Path
                         /\ \A j \in 1..(i - 1) : files[j].Path # file.Path
         IN [files EXCEPT ![first] = file]
    ELSE Append(files, file)

\* The inputs followed: keys "A", "B", "AB", "a"; values "1", "v2", "".
EnvKeys == { <<65>>, <<66>>, <<65, 66>>, <<97>> }
EnvValues == { <<49>>, <<118, 50>>, <<>> }
MaxEnvKeys == 3
EnvMaps ==
    UNION { [K -> EnvValues] : K \in { K \in SUBSET EnvKeys : Cardinality(K) <= MaxEnvKeys } }
\* The orders in which a map's iteration can give its keys.
IterationOrders(env) ==
    { order \in [1..Cardinality(DOMAIN env) -> DOMAIN env] :
        \A i, j \in DOMAIN order : i # j => order[i] # order[j] }
OtherFile == [Path |-> "/etc/motd", Permissions |-> "644", Encoding |-> "", Content |-> <<104, 105>>]
StaleFile(content) ==
    [Path |-> envFilePath, Permissions |-> "644", Encoding |-> "", Content |-> content]
\* The file lists the caller of CreateDomain can pass in config.Files: other
\* files, and none, one or two entries for the hand-off path.
FileLists ==
    { <<>>, <<OtherFile>>, <<StaleFile(<<49>>)>>, <<OtherFile, StaleFile(<<49>>)>>,
      <<StaleFile(<<49>>), OtherFile>>,
      <<StaleFile(<<49>>), StaleFile(<<50>>)>>,
      <<StaleFile(<<49>>), OtherFile, StaleFile(<<50>>)>> }

InitEnv ==
    /\ subnet = [lo |-> 4, hi |-> 7]
    /\ gatewayIP = subnet.lo + 1
    /\ ipPoolStart = 6 /\ ipPoolEnd = 7
    /\ Started
    /\ InitDriver

\* CreateDomain's hand-off of env into config.Files. One call is followed
\* per behaviour: the functions keep no state.
EnvFileFromMap(env, order, files) ==
    /\ derived.fn = "none"
    /\ derived' = [fn |-> "envFile", env |-> env, order |-> order, filesIn |-> files,
                   file |-> envFileFromMap(env, order).file,
                   ok |-> envFileFromMap(env, order).ok,
                   files |-> IF envFileFromMap(env, order).ok
                             THEN upsertFile(files, envFileFromMap(env, order).file)
                             ELSE files]
    /\ UNCHANGED <<cfgVars, lateVars, networkConfig, started, launches, fwVars, allocatedIPs,
                   allocVars, processes, hostVars, thrVars>>

NextEnv ==
    \E env \in EnvMaps, files \in FileLists :
       \E order \in IterationOrders(env) : EnvFileFromMap(env, order, files)

SpecEnv == InitEnv /\ [][NextEnv]_vars

\* The 6-bit value of a base64 character, and the bytes a base64 text stands for.
B64Value(c) == CHOOSE v \in 0..63 : B64Char(v) = c
RECURSIVE Base64Decode(_)
Base64Decode(t) ==
    IF Len(t) < 4 THEN <<>>
    ELSE LET pads == IF t[3] = PadByte THEN 2 ELSE IF t[4] = PadByte THEN 1 ELSE 0
             n == B64Value(t[1]) * 262144 + B64Value(t[2]) * 4096
                  + (IF pads < 2 THEN B64Value(t[3]) * 64 ELSE 0)
                  + (IF pads < 1 THEN B64Value(t[4]) ELSE 0)
             bytes == << n \div 65536, (n \div 256) % 256, n % 256 >>
         IN SubSeq(bytes, 1, 3 - pads) \o Base64Decode(SubSeq(t, 5, Len(t)))

\* The statements of a text, split at its newlines.
RECURSIVE SplitLines(_, _)
SplitLines(t, line) ==
    IF t = <<>> THEN <<line>>
    ELSE IF t[1] = NewlineByte THEN <<line>> \o SplitLines(Tail(t), <<>>)
    ELSE SplitLines(Tail(t), Append(line, t[1]))

EnvFileCalled == derived.fn = "envFile"
\* The decoded file holds one export statement per entry, keys ascending.
OneExportPerKey(d) ==
    LET lines == SplitLines(Base64Decode(d.file.Content), <<>>)
    IN /\ Len(lines) = Cardinality(DOMAIN d.env)
       /\ \A k \in DOMAIN d.env :
             \E i \in 1..Len(lines) : lines[i] = ExportText \o k \o <<EqualsByte>> \o d.env[k]
       /\ \A i \in 1..(Len(lines) - 1) :
             \E k1, k2 \in DOMAIN d.env :
                /\ lines[i] = ExportText \o k1 \o <<EqualsByte>> \o d.env[k1]
                /\ lines[i + 1] = ExportText \o k2 \o <<EqualsByte>> \o d.env[k2]
                /\ StringLess(k1, k2)
EntriesFor(files, path) == { i \in 1..Len(files) : files[i].Path = path }

UpsertReplacesFirst ==
    EnvFileCalled =>
       /\ (DOMAIN derived.env = {}) => (~derived.ok /\ derived.files = derived.filesIn)
       /\ (DOMAIN derived.env # {}) =>
             LET before == EntriesFor(derived.filesIn, envFilePath)
                 after  == EntriesFor(derived.files, envFilePath)
             IN /\ derived.ok
                /\ derived.file.Path = envFilePath
                /\ derived.file.Encoding = "b64"
                /\ OneExportPerKey(derived)
                /\ Cardinality(before) <= 1 => Cardinality(after) = 1
                /\ Cardinality(before) >= 1 => after = before
                /\ \E i \in after :
                      /\ derived.files[i] = derived.file
                      /\ \A j \in after : i <= j
                      /\ \A j \in 1..Len(derived.filesIn) :
                            j # i => derived.files[j] = derived.filesIn[j]

\* --------------------------------------------------------------------------
\* The guest address when the virtualizer reports none: the dnsmasq lease
\* file, lookupDHCPLeaseByMAC and what VMStartedBuild does.
\* --------------------------------------------------------------------------

\* The latest time.Now().Unix() followed.
MaxNow == 2

\* strings.ReplaceAll(t, ":", "")
IsColon(ch) == ch = ":"
NotColon(ch) == ~IsColon(ch)
replaceAllColons(t) == SelectSeq(t, NotColon)

ErrLeaseFileMissing == "dnsmasq lease file not found"
ErrNoActiveLease == "no active lease found for MAC"

\* The scanner loop of lookupDHCPLeaseByMAC from line i on.  A line is its
\* strings.Fields: expiry, ip, mac, hostname, client-id.
RECURSIVE leaseScan(_, _, _, _)
leaseScan(lines, i, mac, now) ==
    IF i > Len(lines) THEN [ip |-> "", err |-> ErrNoActiveLease]
    ELSE IF Len(lines[i]) >= 3
            /\ replaceAllColons(lines[i][3]) = replaceAllColons(mac)
            /\ Atoi(lines[i][1]).ok
            /\ now < Atoi(lines[i][1]).v
    THEN [ip |-> lines[i][2], err |-> "nil"]
    ELSE leaseScan(lines, i + 1, mac, now)

\* Controller.lookupDHCPLeaseByMAC: [ip, err].
lookupDHCPLeaseByMAC(file, mac) ==
    IF ~file.exists THEN [ip |-> "", err |-> ErrLeaseFileMissing]
    ELSE leaseScan(file.lines, 1, mac, file.now)

\* The lease lines followed: an active and an expired lease of vm1 (one with
\* colons, one without), a lease of vm2, a lease with a bad expiry, a short line.
LeaseLines ==
    { << "3", "192.168.254.77", generateDeterministicMAC("vm1"), <<"v", "m", "1">>, <<"*">> >>,
      << "1", "192.168.254.78", replaceAllColons(generateDeterministicMAC("vm1")) >>,
      << "3", "192.168.254.79", generateDeterministicMAC("vm2") >>,
      << "abc", "192.168.254.80", generateDeterministicMAC("vm1") >>,
      << "3", "192.168.254.81" >> }
MaxLeaseLines == 2
LeaseFiles ==
    { [exists |-> e, lines |-> ls, now |-> now] :
        e \in BOOLEAN,
        ls \in UNION { [1..n -> LeaseLines] : n \in 0..MaxLeaseLines },
        now \in 0..MaxNow }

\* Requests with and without an address from the virtualizer or the task.
LeaseRequests ==
    { BuildRequestOf(<<[Bridge |-> NilBridge]>>, AllPorts, <<>>),
      BuildRequestOf(<<[Bridge |-> BridgeOf("br0", "", <<>>)]>>, AllPorts, <<"">>),
      BuildRequestOf(<<[Bridge |-> BridgeOf("br0", "192.168.254.20", <<>>)]>>, AllPorts, <<>>),
      BuildRequestOf(<<[Bridge |-> BridgeOf("br0", "", <<>>)]>>, AllPorts, <<GuestIP>>) }

InitLease ==
    /\ subnet = [lo |-> 4, hi |-> 7]
    /\ gatewayIP = subnet.lo + 1
    /\ ipPoolStart = 6 /\ ipPoolEnd = 7
    /\ networkConfig = ConfigOf(subnet, gatewayIP, ipPoolStart, ipPoolEnd)
    /\ started = "nil"
    /\ ipt = [now |-> TablesOf(TRUE, "absent", "absent"),
              first |-> TablesOf(TRUE, "absent", "absent")]
    /\ allocatedIPs = {} /\ allocLog = <<>> /\ allocBefore = {}
    /\ allocResult = [ip |-> "", err |-> NoErr]
    /\ released = [ip |-> "", was |-> FALSE]
    /\ processes = <<>>
    /\ workDirs = {} /\ taps = {} /\ virtiofsd = {}
    /\ vmm = [n \in Names |-> {}]
    /\ mu = 0
    /\ pc = [t \in Threads |-> "idle"]
    /\ call = [t \in Threads |-> NoCall]
    /\ proc = [t \in Threads |-> NoProc]
    /\ ret = NoRet
    /\ torn = [n \in Names |-> "none"]
    /\ derived = [fn |-> "none"]
    /\ launches = <<>>
    /\ inst = [i \in Instances |-> IdleInstance]
    /\ built = [fn |-> "none"]
    /\ down = [fn |-> "none", calls |-> 0]
    /\ query = [q \in Queries |-> IdleQuery]
    /\ ctx = NoCancel
    /\ vfio = NoDevices
    /\ lease \in LeaseFiles

\* lookupDHCPLeaseByMAC for a VM's MAC on the host's lease file.  One call
\* is followed per behaviour.
LookupDHCPLeaseByMAC(n) ==
    /\ derived.fn = "none"
    /\ derived' = [fn |-> "lease", name |-> n, mac |-> generateDeterministicMAC(n),
                   ip |-> lookupDHCPLeaseByMAC(lease, generateDeterministicMAC(n)).ip,
                   err |-> lookupDHCPLeaseByMAC(lease, generateDeterministicMAC(n)).err]
    /\ UNCHANGED <<cfgVars, lateVars, networkConfig, started, launches, fwVars, allocatedIPs,
                   allocVars, processes, hostVars, thrVars>>

NextLease ==
    \/ InitBegin(TheController)
    \/ \E fails \in BOOLEAN : ListChains(TheController, fails)
    \/ \E fails \in BOOLEAN : NewChain(TheController, fails)
    \/ \E fails \in BOOLEAN : InsertJump(TheController, fails)
    \/ /\ ControllerReady
       /\ \E req \in LeaseRequests : VMStartedBuild(req, {"br0"}, 0)
    \/ \E n \in Names : LookupDHCPLeaseByMAC(n)

SpecLease == InitLease /\ [][NextLease]_vars

\* The request gave no address: none from the virtualizer, no static IP.
NoAddressGiven(req) ==
    /\ ~(Len(req.GuestIPs) > 0 /\ req.GuestIPs[1] # "")
    /\ ~(req.NetConfig.ifaces[1].Bridge.present /\ req.NetConfig.ifaces[1].Bridge.StaticIP # "")
\* The lease of the request's VM in the host's lease file.
LeaseOf(req) == lookupDHCPLeaseByMAC(lease, generateDeterministicMAC(req.DomainName))

\* C32: when the virtualizer reports no guest IP and the task has no static
\* IP, VMStartedBuild takes the address of the active DHCP lease of the VM's
\* deterministic MAC, and fails only if no active lease is found.
C32_LeaseFallback ==
    (built.fn = "build" /\ built.req \in LeaseRequests /\ NoAddressGiven(built.req)) =>
       IF LeaseOf(built.req).err = "nil"
       THEN built.out = "response" /\ built.ip = LeaseOf(built.req).ip
       ELSE built.out = "error"

\* What lookupDHCPLeaseByMAC itself returns: the address of the first line
\* with the MAC, colons aside, whose expiry parses and lies in the future.
LeaseLookupContract ==
    derived.fn = "lease" =>
       LET hits == { i \in 1..Len(lease.lines) :
                       /\ Len(lease.lines[i]) >= 3
                       /\ replaceAllColons(lease.lines[i][3]) = replaceAllColons(derived.mac)
                       /\ \E t \in (lease.now + 1)..(MaxNow + 2) : lease.lines[i][1] = ToString(t) }
       IN IF lease.exists /\ hits # {}
          THEN /\ derived.err = "nil"
               /\ \E i \in hits : derived.ip = lease.lines[i][2] /\ \A j \in hits : i <= j
          ELSE derived.err # "nil" /\ derived.ip = ""

\* --------------------------------------------------------------------------
\* Passthrough devices inside CreateDomain: Driver.addVFIODevices and the
\* creation steps after it.
\* --------------------------------------------------------------------------

\* The latest write to the bind path that is made to fail.
MaxBindFail == 2

ErrVFIOValidation == "VFIO device validation failed"
ErrVFIOGroups == "failed to check IOMMU groups"
ErrVFIOBind == "failed to bind VFIO devices"
ErrVFIOGroupPaths == "failed to get VFIO group paths"

\* BindDevices on a host where the failAt-th write to the bind path fails
\* (0: none fails): the writes that succeeded, and the error.
bindDevicesWrites(devs, devices, failAt) ==
    LET b == bindDevices(devs, devices, 1, <<>>)
    IN IF b.err = Ok /\ failAt \in 1..Len(b.writes)
       THEN [err |-> ErrVFIOBind, writes |-> SubSeq(b.writes, 1, failAt - 1)]
       ELSE b

NoPlatform == [present |-> FALSE, NumPCISegments |-> 0, IOMMUSegments |-> <<>>,
               IOMMUAddressWidth |-> 0]
NilVFIOConfig == [present |-> FALSE, Allowlist |-> <<>>, PCISegments |-> 0,
                  IOMMUAddressWidth |-> 0]

\* Steps 5 and 6 of addVFIODevices: the platform section and the devices.
platformFor(vfioConfig, platform) ==
    [present |-> TRUE,
     NumPCISegments |->
        IF platform.NumPCISegments # 0 THEN platform.NumPCISegments
        ELSE IF vfioConfig.present /\ vfioConfig.PCISegments > 0 THEN vfioConfig.PCISegments
        ELSE 1,
     IOMMUAddressWidth |->
        IF platform.IOMMUAddressWidth # 0 THEN platform.IOMMUAddressWidth
        ELSE IF vfioConfig.present /\ vfioConfig.IOMMUAddressWidth > 0
        THEN vfioConfig.IOMMUAddressWidth
        ELSE 48,
     IOMMUSegments |-> IF Len(platform.IOMMUSegments) = 0 THEN <<0>> ELSE platform.IOMMUSegments]
deviceConfigs(groupPaths) ==
    [i \in 1..Len(groupPaths) |->
       [Path |-> groupPaths[i], ID |-> "vfio-" \o ToString(i - 1), IOMMU |-> TRUE,
        PCISegment |-> 0]]

\* What a call of addVFIODevices leaves: its error, the manager calls it
\* made in order, the sysfs writes in order, and the VM configuration.
VFIOResult(err, steps, writes, vmConfig) ==
    [err |-> err, steps |-> steps, writes |-> writes, vmConfig |-> vmConfig]

\* An addVFIODevices that binds before it validates.
addVFIODevicesBindFirst(vfioConfig, devs, groupDevs, devices, vmConfig, failAt) ==
    IF Len(devices) = 0 THEN VFIOResult(Ok, <<>>, <<>>, vmConfig)
    ELSE LET allowlist == IF vfioConfig.present /\ Len(vfioConfig.Allowlist) > 0
                          THEN vfioConfig.Allowlist ELSE <<>>
             b == bindDevicesWrites(devs, devices, failAt)
         IN IF validateDevices(devs, devices, allowlist, 1) # Ok
            THEN VFIOResult(ErrVFIOValidation, <<"BindDevices", "ValidateDevices">>, b.writes,
                            vmConfig)
            ELSE VFIOResult(ErrVFIOGroups, <<"BindDevices", "ValidateDevices", "CheckIOMMUGroups">>,
                            b.writes, vmConfig)

\* An addVFIODevices that also unbinds when binding fails.
addVFIODevicesUnbindAlways(vfioConfig, devs, groupDevs, devices, vmConfig, failAt) ==
    IF Len(devices) = 0 THEN VFIOResult(Ok, <<>>, <<>>, vmConfig)
    ELSE
    LET allowlist == IF vfioConfig.present /\ Len(vfioConfig.Allowlist) > 0
                     THEN vfioConfig.Allowlist ELSE <<>>
    IN IF validateDevices(devs, devices, allowlist, 1) # Ok
       THEN VFIOResult(ErrVFIOValidation, <<"ValidateDevices">>, <<>>, vmConfig)
       ELSE IF checkIOMMUGroups(devs, devices, 1, <<>>).err # Ok
       THEN VFIOResult(ErrVFIOGroups, <<"ValidateDevices", "CheckIOMMUGroups">>, <<>>, vmConfig)
       ELSE
       LET b == bindDevicesWrites(devs, devices, failAt)
           bound == kernelBinds(devs, b.writes)
           paths == getVFIOGroupPaths(bound, groupDevs, devices, 1, <<>>)
       IN IF b.err # Ok
          THEN VFIOResult(ErrVFIOBind,
                          <<"ValidateDevices", "CheckIOMMUGroups", "BindDevices", "UnbindDevices">>,
                          b.writes \o unbindDevices(bound, devices, 1, <<>>).writes, vmConfig)
          ELSE IF paths.err # Ok
          THEN VFIOResult(ErrVFIOGroupPaths,
                          <<"ValidateDevices", "CheckIOMMUGroups", "BindDevices",
                            "GetVFIOGroupPaths", "UnbindDevices">>,
                          b.writes \o unbindDevices(bound, devices, 1, <<>>).writes, vmConfig)
          ELSE VFIOResult(Ok,
                          <<"ValidateDevices", "CheckIOMMUGroups", "BindDevices",
                            "GetVFIOGroupPaths">>,
                          b.writes,
                          [Platform |-> platformFor(vfioConfig, vmConfig.Platform),
                           Devices |-> vmConfig.Devices \o deviceConfigs(paths.paths)])

\* Driver.addVFIODevices(config, vmConfig) on a host with the devices devs,
\* with the failAt-th bind write failing.
addVFIODevices(vfioConfig, devs, groupDevs, devices, vmConfig, failAt) ==
    IF Len(devices) = 0 THEN VFIOResult(Ok, <<>>, <<>>, vmConfig)
    ELSE
    LET allowlist == IF vfioConfig.present /\ Len(vfioConfig.Allowlist) > 0
                     THEN vfioConfig.Allowlist ELSE <<>>
    IN IF validateDevices(devs, devices, allowlist, 1) # Ok
       THEN VFIOResult(ErrVFIOValidation, <<"ValidateDevices">>, <<>>, vmConfig)
       ELSE IF checkIOMMUGroups(devs, devices, 1, <<>>).err # Ok
       THEN VFIOResult(ErrVFIOGroups, <<"ValidateDevices", "CheckIOMMUGroups">>, <<>>, vmConfig)
       ELSE
       LET b == bindDevicesWrites(devs, devices, failAt)
           bound == kernelBinds(devs, b.writes)
           paths == getVFIOGroupPaths(bound, groupDevs, devices, 1, <<>>)
       IN IF b.err # Ok
          THEN VFIOResult(ErrVFIOBind, <<"ValidateDevices", "CheckIOMMUGroups", "BindDevices">>,
                          b.writes, vmConfig)
          ELSE IF paths.err # Ok
          THEN VFIOResult(ErrVFIOGroupPaths,
                          <<"ValidateDevices", "CheckIOMMUGroups", "BindDevices",
                            "GetVFIOGroupPaths", "UnbindDevices">>,
                          b.writes \o unbindDevices(bound, devices, 1, <<>>).writes, vmConfig)
          ELSE VFIOResult(Ok,
                          <<"ValidateDevices", "CheckIOMMUGroups", "BindDevices",
                            "GetVFIOGroupPaths">>,
                          b.writes,
                          [Platform |-> platformFor(vfioConfig, vmConfig.Platform),
                           Devices |-> vmConfig.Devices \o deviceConfigs(paths.paths)])

\* The configurations followed.
VFIOConfigs ==
    { NilVFIOConfig,
      [present |-> TRUE, Allowlist |-> <<>>, PCISegments |-> 0, IOMMUAddressWidth |-> 0],
      [present |-> TRUE, Allowlist |-> <<"10de:*">>, PCISegments |-> 4, IOMMUAddressWidth |-> 39] }
VMConfigs ==
    { [Platform |-> NoPlatform, Devices |-> <<>>],
      [Platform |-> [NoPlatform EXCEPT !.present = TRUE, !.NumPCISegments = 2],
       Devices |-> <<[Path |-> "/dev/vfio/7", ID |-> "gpu", IOMMU |-> TRUE, PCISegment |-> 0]>>] }
\* A task without passthrough devices, one that asks for a device the host
\* does not have, and the VM configuration buildVMConfig returns for them.
NoPassthrough == <<>>
AbsentDevice == <<"0000:01:00.0">>
PlainVMConfig == [Platform |-> NoPlatform, Devices |-> <<>>]

\* The place of a step in CreateDomain.
StepIndex(step) == CHOOSE k \in 1..Len(BuildSteps) : BuildSteps[k] = step

\* The addVFIODevices step of CreateDomain for a task that asks for devices
\* (vmConfig is what buildVMConfig returned): the manager's writes reach the
\* host's PCI devices; when addVFIODevices returns nil the call goes on to
\* startCHProcess, otherwise the cleanup calls of this failure path run and
\* the call returns the error.
CreateDomain_VFIO(t, vfioConfig, devices, vmConfig, failAt) ==
    /\ pc[t] = "build"
    /\ BuildSteps[call[t].step] = "vfio"
    /\ LET n   == call[t].name
           r   == addVFIODevices(vfioConfig, vfio.devs, vfio.groupDevs, devices, vmConfig, failAt)
           st0 == [h |-> Host, alloc |-> allocatedIPs, p |-> proc[t]]
           st  == Undo(UndoCalls("vfio"), st0, n)
       IN /\ vfio' = [vfio EXCEPT
                !.writes = @ \o r.writes,
                !.devs = kernelBinds(@, r.writes),
                !.last = [fn |-> "addVFIODevices", vfioConfig |-> vfioConfig, devices |-> devices,
                          devs |-> vfio.devs, groupDevs |-> vfio.groupDevs, failAt |-> failAt,
                          vmConfigIn |-> vmConfig,
                          err |-> r.err, steps |-> r.steps, writes |-> r.writes,
                          vmConfig |-> r.vmConfig]]
          /\ IF r.err = Ok
             THEN /\ call' = [call EXCEPT ![t].step = @ + 1]
                  /\ UNCHANGED <<allocatedIPs, taps, virtiofsd, vmm, mu, pc, proc, ret>>
             ELSE /\ taps' = st.h.taps /\ virtiofsd' = st.h.virtiofsd /\ vmm' = st.h.vmm
                  /\ allocatedIPs' = st.alloc
                  /\ Returned("create", "vfio", UndoCalls("vfio"))
                  /\ Unlocked(t)
    /\ UNCHANGED <<cfgVars, down, query, ctx, lease, auxVars, allocVars, workDirs, processes, torn>>

----------------------------------------------------------------------------
(* The lifecycle controller under concurrent callers *)

\* CreateDomain by goroutine t, for a task without passthrough devices or
\* one that asks for a device the host does not have.
CreateDomain(t) ==
    \/ Lock(t, "create")
    \/ \E n \in Names, s \in Statics : CreateDomain_Prepare(t, n, s)
    \/ \E ok \in BOOLEAN, launched \in BOOLEAN : CreateDomain_Step(t, ok, launched)
    \/ \E devices \in {NoPassthrough, AbsentDevice} :
          CreateDomain_VFIO(t, NilVFIOConfig, devices, PlainVMConfig, 0)

Next ==
    \E t \in Threads :
        \/ CreateDomain(t)
        \/ Lock(t, "stop")
        \/ \E n \in Names : StopDomain(t, n)
        \/ Lock(t, "destroy")
        \/ \E n \in Names : DestroyDomain(t, n)

Spec == Init /\ [][Next]_vars

\* The VM the lifecycle calls of the queries' specification are about; the
\* queries also ask for a name that is not registered.
QueriedVM == "vm1"

\* Goroutine 1 creates the VM and goroutine 2 destroys it; query goroutine
\* 1 asks for a VM, query goroutine 2 for the host; the context may be
\* cancelled, and monitorCtx then sweeps.
NextQuery ==
    \/ Lock(1, "create")
    \/ CreateDomain_Prepare(1, QueriedVM, NoStatic)
    \/ \E ok \in BOOLEAN, launched \in BOOLEAN : CreateDomain_Step(1, ok, launched)
    \/ CreateDomain_VFIO(1, NilVFIOConfig, NoPassthrough, PlainVMConfig, 0)
    \/ Lock(2, "destroy")
    \/ DestroyDomain(2, QueriedVM)
    \/ \E fn \in {"GetDomain", "GetNetworkInterfaces"}, n \in Names : QueryLookup(1, fn, n)
    \/ \E infoOk \in BOOLEAN, chState \in CHStateTexts \cup {""} :
          GetDomain_Info(1, infoOk, chState)
    \/ GetDomain_Return(1)
    \/ GetNetworkInterfaces_Return(1)
    \/ \E version \in {0, 48} : GetInfo_Version(2, version)
    \/ GetInfo_Return(2)
    \/ Cancel
    \/ MonitorCtx_Lock
    \/ MonitorCtx

SpecQuery == InitQuery /\ [][NextQuery]_vars

\* Goroutine 1 creates VMs and goroutine 2 destroys them, the context may be
\* cancelled, and monitorCtx then sweeps.
NextSweep ==
    \/ Lock(1, "create")
    \/ \E n \in Names : CreateDomain_Prepare(1, n, NoStatic)
    \/ \E ok \in BOOLEAN, launched \in BOOLEAN : CreateDomain_Step(1, ok, launched)
    \/ CreateDomain_VFIO(1, NilVFIOConfig, NoPassthrough, PlainVMConfig, 0)
    \/ Lock(2, "destroy")
    \/ \E n \in Names : DestroyDomain(2, n)
    \/ Cancel
    \/ MonitorCtx_Lock
    \/ MonitorCtx

\* A goroutine that holds the lock runs on to its return, and the lock is
\* handed to a goroutine that waits for it.
SpecSweep ==
    /\ InitQuery /\ [][NextSweep]_vars
    /\ WF_vars(\E n \in Names : CreateDomain_Prepare(1, n, NoStatic))
    /\ WF_vars(\E ok \in BOOLEAN, launched \in BOOLEAN : CreateDomain_Step(1, ok, launched))
    /\ WF_vars(CreateDomain_VFIO(1, NilVFIOConfig, NoPassthrough, PlainVMConfig, 0))
    /\ WF_vars(\E n \in Names : DestroyDomain(2, n))
    /\ SF_vars(MonitorCtx_Lock)
    /\ WF_vars(MonitorCtx)

\* Goroutine 1 creates, stops and destroys VMs, the context may be cancelled
\* and swept, and query goroutine 2 asks for the host.
NextInfo ==
    \/ \E op \in {"create", "stop", "destroy"} : Lock(1, op)
    \/ \E n \in Names : CreateDomain_Prepare(1, n, NoStatic)
    \/ \E ok \in BOOLEAN, launched \in BOOLEAN : CreateDomain_Step(1, ok, launched)
    \/ CreateDomain_VFIO(1, NilVFIOConfig, NoPassthrough, PlainVMConfig, 0)
    \/ \E n \in Names : StopDomain(1, n)
    \/ \E n \in Names : DestroyDomain(1, n)
    \/ \E version \in {0, 48} : GetInfo_Version(2, version)
    \/ GetInfo_Return(2)
    \/ Cancel
    \/ MonitorCtx_Lock
    \/ MonitorCtx

SpecInfo == InitQuery /\ [][NextInfo]_vars

\* --------------------------------------------------------------------------
\* The registry lock across creations, stops, destructions and the sweep.
\* --------------------------------------------------------------------------

\* Two goroutines create, stop and destroy VMs and a third asks for the
\* host, while the context may be cancelled and monitorCtx may sweep.
NextLock ==
    \/ \E t \in Threads, op \in {"create", "stop", "destroy"} : Lock(t, op)
    \/ \E t \in Threads, n \in Names : CreateDomain_Prepare(t, n, NoStatic)
    \/ \E t \in Threads, ok \in BOOLEAN, launched \in BOOLEAN : CreateDomain_Step(t, ok, launched)
    \/ \E t \in Threads : CreateDomain_VFIO(t, NilVFIOConfig, NoPassthrough, PlainVMConfig, 0)
    \/ \E t \in Threads, n \in Names : StopDomain(t, n)
    \/ \E t \in Threads, n \in Names : DestroyDomain(t, n)
    \/ \E version \in {0, 48} : GetInfo_Version(2, version)
    \/ GetInfo_Return(2)
    \/ Cancel
    \/ MonitorCtx_Lock
    \/ MonitorCtx

SpecLock == InitQuery /\ [][NextLock]_vars

\* The goroutines inside a critical section: the lifecycle callers past
\* d.mu.Lock(), and monitorCtx.
InSection ==
    { t \in Threads : pc[t] # "idle" } \cup (IF mu = Monitor THEN {Monitor} ELSE {})
\* What the lock protects: registry, allocation set, and the host resources
\* of the registered VMs.
Protected == <<processes, allocatedIPs, hostVars>>
\* The step is one of the goroutine that holds the lock.
HolderStep ==
    \/ mu \in Threads /\ (pc'[mu] # pc[mu] \/ call'[mu] # call[mu] \/ proc'[mu] # proc[mu])
    \/ mu = Monitor /\ ~ctx.swept /\ ctx'.swept

\* Query goroutine q takes the read lock in this step: the registry lookup
\* of GetDomain and GetNetworkInterfaces, and the count of GetInfo.
ReadsRegistry(q) ==
    \/ /\ query[q].pc = "idle" /\ query'[q].pc = "flight"
       /\ query'[q].fn \in {"GetDomain", "GetNetworkInterfaces"}
    \/ query[q].pc = "flight" /\ query[q].fn = "GetInfo" /\ query'[q].pc = "idle"

C33_Inv ==
    /\ Cardinality(InSection) <= 1
    /\ \A t \in Threads : pc[t] # "idle" <=> mu = t
C33_Step ==
    mu # 0 =>
       /\ mu' \in {mu, 0}
       /\ \A t \in Threads \ {mu} : pc'[t] = pc[t] /\ call'[t] = call[t] /\ proc'[t] = proc[t]
       /\ mu \in Threads => ctx'.swept = ctx.swept
       /\ \A q \in Queries : ~ReadsRegistry(q)
       /\ HolderStep \/ UNCHANGED <<Protected, ret, torn, mu>>
       /\ mu' = 0 => HolderStep
       /\ (mu \in Threads /\ pc[mu] \in {"create", "build"}) =>
             \/ /\ mu' = mu /\ pc'[mu] = "build"
                /\ UNCHANGED <<processes, ret>>
                /\ IF pc[mu] = "create"
                   THEN allocatedIPs' = allocatedIPs \cup {proc'[mu].IP}
                   ELSE allocatedIPs' = allocatedIPs
             \/ /\ mu' = 0 /\ pc'[mu] = "idle"
                /\ ret'.op = "create"
                /\ \/ /\ ret'.val = Ok /\ AtStep(mu, "boot")
                      /\ call[mu].name \in DOMAIN processes'
                      /\ allocatedIPs' = allocatedIPs
                   \/ /\ ret'.val # Ok /\ UNCHANGED processes
                      /\ allocatedIPs' = allocatedIPs \ {proc[mu].IP}
             \/ UNCHANGED <<mu, pc, call, proc, Protected, ret>>

\* C33: the registry lock is held for the whole of every mutating operation.
\* At most one goroutine (a CreateDomain, StopDomain or DestroyDomain caller,
\* or monitorCtx) is inside its critical section, and it holds the lock from
\* the return of d.mu.Lock() to its own return; while it does, no other
\* call enters, the sweep does not run unless monitorCtx is the holder, no
\* query reads the registry, and every change of the registry, the
\* allocation set and the host's resources is a step of the holder; a
\* creation holds the lock from the duplicate check until it has registered
\* the VM or rolled back.
C33_LockHeldThroughout == []C33_Inv /\ [][C33_Step]_vars
\* The sweep, goroutine 2 (back from a StopDomain) and a GetInfo query wait
\* while goroutine 1, inside CreateDomain beside a registered VM, has
\* launched the VMM process.
C33_Witness ==
    /\ mu = 1 /\ AtStep(1, "boot")
    /\ vmm[call[1].name] # {}
    /\ ctx.cancelled /\ ~ctx.swept
    /\ pc[2] = "idle" /\ ret.op = "stop"
    /\ query[2].pc = "flight"
    /\ DOMAIN processes # {}

\* --------------------------------------------------------------------------
\* The order of the rollback of a failed CreateDomain.
\* --------------------------------------------------------------------------

\* The position in the creation sequence of what a cleanup call undoes:
\* the address comes first, then the TAP, the helpers, the VMM process.
UndoneRank(c) ==
    CASE c = "deallocateIP"      -> 0
      [] c = "cleanupNetworking" -> 2
      [] c = "stopVirtiofsd"     -> 3
      [] c = "cleanupProcess"    -> 6
\* The creation that returned last failed at one of its build steps.
CreateFailedAt(step) == ret.op = "create" /\ ret.val = step

\* C34: on a CreateDomain failure the completed steps are undone in the
\* reverse of the order in which they were performed: the most recently
\* completed step first and the IP, acquired first, released last.
C34_RollbackReversed ==
    \A k \in 1..Len(BuildSteps) :
       CreateFailedAt(BuildSteps[k]) =>
          LET calls == UndoCalls(BuildSteps[k])
          IN /\ \A i, j \in 1..Len(calls) : i < j => UndoneRank(calls[i]) > UndoneRank(calls[j])
             /\ calls[Len(calls)] = "deallocateIP"

\* The hosts of the manager's calls, and one where a device is yet to be
\* bound and its group has no /dev/vfio node.
PassthroughHosts ==
    SysfsHosts \cup
    { [devs |-> [a \in {"0000:01:00.0", "0000:02:00.0"} |->
                   CASE a = "0000:01:00.0" -> Device("10de", "2204", "nvidia", "42")
                     [] OTHER              -> Device("8086", "0d26", "ixgbe", "43")],
       groupDevs |-> {"42"}] }

InitPassthrough ==
    /\ subnet = [lo |-> 4, hi |-> 7]
    /\ gatewayIP = subnet.lo + 1
    /\ ipPoolStart = 6 /\ ipPoolEnd = 7
    /\ Started
    /\ allocatedIPs = {} /\ allocLog = <<>> /\ allocBefore = {}
    /\ allocResult = [ip |-> "", err |-> NoErr]
    /\ released = [ip |-> "", was |-> FALSE]
    /\ processes = <<>>
    /\ workDirs = {} /\ taps = {} /\ virtiofsd = {}
    /\ vmm = [n \in Names |-> {}]
    /\ mu = 0
    /\ pc = [t \in Threads |-> "idle"]
    /\ call = [t \in Threads |-> NoCall]
    /\ proc = [t \in Threads |-> NoProc]
    /\ ret = NoRet
    /\ torn = [n \in Names |-> "none"]
    /\ derived = [fn |-> "none"]
    /\ launches = <<>>
    /\ inst = [i \in Instances |-> IdleInstance]
    /\ built = [fn |-> "none"]
    /\ down = [fn |-> "none", calls |-> 0]
    /\ query = [q \in Queries |-> IdleQuery]
    /\ ctx = NoCancel
    /\ lease = NoLeases
    /\ \E host \in PassthroughHosts :
          vfio = [NoDevices EXCEPT !.devs = host.devs, !.groupDevs = host.groupDevs]

\* A CreateDomain call for a task with passthrough devices, from
\* d.mu.Lock() to its return.  Calls are followed until one has reached
\* addVFIODevices.
NextPassthrough ==
    \/ vfio.last.fn = "none" /\ Lock(1, "create")
    \/ \E n \in Names : CreateDomain_Prepare(1, n, NoStatic)
    \/ \E ok \in BOOLEAN, launched \in BOOLEAN : CreateDomain_Step(1, ok, launched)
    \/ \E vfioConfig \in VFIOConfigs, devices \in DeviceLists, vmConfig \in VMConfigs,
          failAt \in 0..MaxBindFail :
             CreateDomain_VFIO(1, vfioConfig, devices, vmConfig, failAt)

SpecPassthrough == InitPassthrough /\ [][NextPassthrough]_vars

PassthroughCalled == vfio.last.fn = "addVFIODevices"
IsBindWrite(w) == w.path = BindPath
IsUnbindWrite(w) == w.path = UnbindPath
\* The allowlist addVFIODevices hands to the manager.
AllowlistOf(r) ==
    IF r.vfioConfig.present /\ r.vfioConfig.Allowlist # <<>> THEN r.vfioConfig.Allowlist ELSE <<>>
\* Every requested device is present and allowed; has an IOMMU group; has
\* its group's /dev/vfio node.
AllValidated(r) ==
    /\ AllPresent(r)
    /\ \A i \in 1..Len(r.devices) :
          \/ AllowlistOf(r) = <<>>
          \/ EntryFor(r.devs[r.devices[i]].vendor, r.devs[r.devices[i]].device, AllowlistOf(r))
AllGrouped(r) == \A i \in 1..Len(r.devices) : r.devs[r.devices[i]].group # ""
AllPathsResolved(r) == \A i \in 1..Len(r.devices) : r.devs[r.devices[i]].group \in r.groupDevs
\* The requested devices that were not bound to the passthrough driver, in order.
Unbound(r) == SelectSeq(r.devices, LAMBDA a : r.devs[a].driver # VFIODriver)
\* Every bind write of the call succeeded.
BindSucceeded(r) == r.failAt \notin 1..Len(Unbound(r))
ManagerOrder == <<"ValidateDevices", "CheckIOMMUGroups", "BindDevices", "GetVFIOGroupPaths">>

\* C35: addVFIODevices runs validate, IOMMU-group check, bind, group-path
\* resolution and config append strictly in this order: nothing is written
\* to the bind path unless every requested device passed validation and has
\* an IOMMU group, and the VM configuration's devices and platform change
\* only after all group paths resolved; on any error, and without requested
\* devices, the VM configuration is unchanged.
C35_PassthroughOrder ==
    PassthroughCalled =>
       LET r == vfio.last
           calls == SelectSeq(r.steps, LAMBDA c : c # "UnbindDevices")
       IN /\ calls = SubSeq(ManagerOrder, 1, Len(calls))
          /\ (\E i \in 1..Len(r.writes) : IsBindWrite(r.writes[i])) =>
                (AllValidated(r) /\ AllGrouped(r))
          /\ (r.devices # <<>> /\ AllValidated(r) /\ AllGrouped(r)) =>
                SelectSeq(r.writes, IsBindWrite)
                   = [i \in 1..(IF BindSucceeded(r) THEN Len(Unbound(r)) ELSE r.failAt - 1) |->
                        [path |-> BindPath, data |-> Unbound(r)[i]]]
          /\ (r.vmConfig # r.vmConfigIn) =>
                /\ r.err = Ok /\ r.devices # <<>>
                /\ calls = ManagerOrder
                /\ AllValidated(r) /\ AllGrouped(r) /\ BindSucceeded(r) /\ AllPathsResolved(r)
          /\ (r.err # Ok \/ r.devices = <<>>) => r.vmConfig = r.vmConfigIn
          /\ (r.err = Ok /\ r.devices # <<>>) =>
                /\ r.vmConfig.Platform.present
                /\ Len(r.vmConfig.Devices) = Len(r.vmConfigIn.Devices) + Cardinality(GroupsOf(r))
                /\ \A g \in GroupsOf(r) :
                      \E i \in (Len(r.vmConfigIn.Devices) + 1)..Len(r.vmConfig.Devices) :
                         r.vmConfig.Devices[i].Path = GroupPath(g)
\* Two devices of one group were bound and appended as one device.
C35_Witness ==
    /\ PassthroughCalled
    /\ vfio.last.devices = <<"0000:01:00.0", "0000:01:00.1">>
    /\ vfio.last.err = Ok
    /\ Len(SelectSeq(vfio.last.writes, IsBindWrite)) = 2
    /\ Len(vfio.last.vmConfig.Devices) = Len(vfio.last.vmConfigIn.Devices) + 1

\* C36: during a creation the requested devices are unbound from the
\* passthrough driver exactly when group-path resolution fails after
\* binding; a bind failure part-way through the list and a later failure of
\* the process start or of create/boot unbind nothing.
C36_UnbindOnlyOnPathFailure ==
    PassthroughCalled =>
       LET r == vfio.last
           unbinds == SelectSeq(r.writes, IsUnbindWrite)
           pathsFailed == /\ r.devices # <<>> /\ AllValidated(r) /\ AllGrouped(r)
                          /\ BindSucceeded(r) /\ ~AllPathsResolved(r)
       IN /\ ("UnbindDevices" \in Range(r.steps)) <=> pathsFailed
          /\ (ret.op = "create" /\ ret.val \in {"vfio", "startch", "boot"}) =>
                "unbindDevices" \notin Range(ret.events)
          /\ pathsFailed =>
                /\ r.err = ErrVFIOGroupPaths
                /\ unbinds = [i \in 1..Len(r.devices) |-> [path |-> UnbindPath, data |-> r.devices[i]]]
                /\ \A i \in 1..Len(r.devices) : vfio.devs[r.devices[i]].driver # VFIODriver
          /\ ~pathsFailed =>
                /\ unbinds = <<>>
                /\ \A i \in 1..Len(r.writes) : vfio.devs[r.writes[i].data].driver = VFIODriver
                /\ \A a \in DOMAIN r.devs :
                      r.devs[a].driver = VFIODriver => vfio.devs[a].driver = VFIODriver
\* The devices the addVFIODevices call r bound to the passthrough driver.
BoundByCall(r) ==
    { r.writes[i].data : i \in { j \in 1..Len(r.writes) : IsBindWrite(r.writes[j]) } }

\* C6: when CreateDomain fails at any step, then on return every step
\* completed so far has been undone: the address is released, the VM has no
\* TAP interface, no helper process and no VMM process, the devices a
\* completed addVFIODevices bound are bound no more, and the VM's name is not
\* in the registry.
C6_Step ==
    \A t \in Threads :
        (pc[t] = "build" /\ pc'[t] = "idle" /\ ret'.val # Ok) =>
            LET n == call[t].name
            IN /\ ret'.op = "create" /\ ret'.val = BuildSteps[call[t].step]
               /\ proc[t].IP \notin allocatedIPs'
               /\ n \notin taps' /\ n \notin virtiofsd'
               /\ vmm'[n] = {}
               /\ n \notin DOMAIN processes'
               /\ call[t].step > StepIndex("vfio") =>
                     \A a \in BoundByCall(vfio.last) : vfio'.devs[a].driver # VFIODriver
C6_FailureUndone == [][C6_Step]_vars

\* The part of C6 that holds: the address, the TAP interface, the helper
\* processes, the VMM process and the registry.
HostUndoneStep ==
    \A t \in Threads :
        (pc[t] = "build" /\ pc'[t] = "idle" /\ ret'.val # Ok) =>
            LET n == call[t].name
            IN /\ ret'.op = "create" /\ ret'.val = BuildSteps[call[t].step]
               /\ proc[t].IP \notin allocatedIPs'
               /\ n \notin taps' /\ n \notin virtiofsd'
               /\ vmm'[n] = {}
               /\ n \notin DOMAIN processes'
HostUndone == [][HostUndoneStep]_vars

\* A device was bound, its group's node was missing, and it was unbound.
C36_Witness ==
    /\ PassthroughCalled
    /\ vfio.last.err = ErrVFIOGroupPaths
    /\ \E i, j \in 1..Len(vfio.last.writes) :
          /\ i < j
          /\ vfio.last.writes[i] = [path |-> BindPath, data |-> "0000:02:00.0"]
          /\ vfio.last.writes[j] = [path |-> UnbindPath, data |-> "0000:02:00.0"]

\* --------------------------------------------------------------------------
\* Setup followed by teardown.
\* --------------------------------------------------------------------------

\* The first teardown after the build was handed the list the build
\* returned, and every deletion went through.
TornDownUnmodified ==
    /\ built.fn = "build" /\ built.out = "response"
    /\ down.fn = "teardown" /\ down.calls = 1
    /\ down.req = TeardownRequestOf(built.teardown)
    /\ down.faults = {}

\* The first half of C37: after the teardown the rules are those from
\* before the setup.
SetupUndone == TornDownUnmodified => ipt.now.rules = built.before.rules

\* C37: a VMStartedBuild call followed by VMTerminatedTeardown with the
\* unmodified TeardownSpec it returned restores the rules to what they were
\* before the setup; and if VMStartedBuild returns an error, no rule it
\* appended remains without a teardown descriptor covering it.
C37_SetupThenTeardown ==
    /\ SetupUndone
    /\ (built.fn = "build" /\ built.out = "error") =>
          \A rule \in Range(built.appended) : rule \in Range(built.teardown)

----------------------------------------------------------------------------
(* Addresses and their owners: C38 *)

\* No lifecycle call holds the lock.
NoCallInProgress == mu = 0 /\ \A t \in Threads : pc[t] = "idle"

\* The IP texts of the registered VMs.
OwnedIPs == { processes[n].IP : n \in DOMAIN processes }

\* As texts the books balance: between calls the keys of the allocation map
\* are the IP texts of the registered VMs, and no two VMs hold the same text.
OwnersMatchByText ==
    NoCallInProgress =>
        /\ allocatedIPs = OwnedIPs
        /\ \A n, m \in DOMAIN processes : n # m => processes[n].IP # processes[m].IP

\* C38: whenever no lifecycle call is in progress, the allocation set is
\* exactly the set of IPs held by registered VMs (none leaked, none freed
\* while owned) and no two registered VMs hold the same IP.
C38_OwnersMatchAllocations ==
    NoCallInProgress =>
        /\ allocatedIPs = OwnedIPs
        /\ \A n, m \in DOMAIN processes :
              n # m => ~SameAddress(processes[n].IP, processes[m].IP)

----------------------------------------------------------------------------
(* The allocator's loop: C39 *)

\* The last step was an allocateIP call.
AllocateCalled == allocResult # [ip |-> "", err |-> NoErr]

\* The addresses the loop of that call examined, in order.
Visits ==
    allocateVisits(ipPoolStart, allocBefore, subnet, gatewayIP, ipPoolStart, ipPoolEnd)

\* C39: under a validated configuration every allocateIP call ends after at
\* most (pool end - pool start + 1) iterations; the iterations examine the
\* addresses from the pool start upward, each once, and the call returns the
\* last one examined or the no-available error at the pool end, also when
\* the gateway lies in the pool or is the pool end.
C39_AllocateTerminates ==
    AllocateCalled =>
        /\ Len(Visits) <= ipPoolEnd - ipPoolStart + 1
        /\ \A i \in 1..Len(Visits) : Visits[i] = ipPoolStart + (i - 1)
        /\ allocResult.err = NoErr => allocResult.ip = AddrString(Visits[Len(Visits)])
        /\ allocResult.err # NoErr =>
              /\ allocResult.err = ErrNoAvailable
              /\ Visits[Len(Visits)] = ipPoolEnd

\* A full pool whose end is the gateway and the last address of the address
\* space: the call examined every pool address and returned the error.
C39_Witness ==
    /\ AllocateCalled
    /\ gatewayIP = ipPoolEnd /\ ipPoolEnd = MaxAddr
    /\ allocResult.err = ErrNoAvailable
    /\ Len(Visits) = ipPoolEnd - ipPoolStart + 1
    /\ Len(Visits) > 2

\* A call that skipped a gateway inside the pool and returned the address
\* after it.
C39_GatewaySkipped ==
    /\ AllocateCalled
    /\ allocResult.err = NoErr
    /\ \E i \in 1..(Len(Visits) - 1) : Visits[i] = gatewayIP

----------------------------------------------------------------------------
(* The count GetInfo reports: C40 *)

\* The step in which query goroutine q returns from GetInfo.
GetInfoReturns(q) ==
    /\ query[q].pc = "flight" /\ query[q].fn = "GetInfo"
    /\ query'[q].pc = "idle"

\* The registered VMs whose VMM process runs.
RunningVMs == { n \in DOMAIN processes : vmm[n] # {} }

\* What GetInfo counts: the entries of the registry, running or not.
C40_RegisteredStep ==
    \A q \in Queries :
        GetInfoReturns(q) => query'[q].RunningDomains = Cardinality(DOMAIN processes)
RunningDomainsIsRegistryLength == [][C40_RegisteredStep]_vars

C40_Step ==
    \A q \in Queries :
        GetInfoReturns(q) => query'[q].RunningDomains = Cardinality(RunningVMs)

\* C40: the RunningDomains GetInfo reports is the number of registered VMs
\* whose VMM process has not been stopped or killed, after any sequence of
\* CreateDomain, StopDomain, DestroyDomain and the shutdown sweep.
C40_RunningDomainsCount == [][C40_Step]_vars

====
